---- MODULE Spec2Model ----
(***************************************************************************)
(* Model of the dgmt concurrency core:                                     *)
(*   - the debounced change aggregator  (dgmt/core/watcher.py)             *)
(*   - the daemon's sync / pull path    (dgmt/core/daemon.py)              *)
(*   - the shutdown coordinator         (dgmt/core/shutdown.py)            *)
(*   - the run and sync commands        (dgmt/cli/commands/sync.py)        *)
(*   - the config document loader       (dgmt/core/config.py)              *)
(* Each part has its own specification over the shared variables.          *)
(***************************************************************************)
EXTENDS Integers, Sequences, FiniteSets, TLC

\* ------------------------------------------------------------------ bounds
\* events delivered to the aggregator in one behaviour
MaxEvents == 3
\* last instant of the modelled clock
MaxTime == 5
\* debounce_seconds and max_wait_seconds of the modelled aggregator, in ticks
Debounce == 2
MaxWait == 3

\* ------------------------------------------------------------- aggregator
VARIABLES
  changes,      \* DebouncedHandler._changes (the live ChangeSet)
  first_event,  \* DebouncedHandler._first_event
  last_event,   \* DebouncedHandler._last_event
  timer,        \* DebouncedHandler._timer: index into timers, or None
  timers,       \* every threading.Timer created so far, in creation order
  now,          \* the clock read by datetime.now()
  hist,         \* events tracked since the last snapshot (history)
  nEvents,      \* number of events handled so far (bounded by MaxEvents)
  calls,        \* one record per invocation of the trigger callback
  backends,     \* Daemon._backends: the set of backend names it holds
  watch_paths   \* Daemon._config.hub.watch_paths

\* ------------------------------------------- daemon start: pull and sync
VARIABLES
  pull_on_startup, \* Daemon._config.hub.pull_on_startup
  rclone_enabled,  \* Daemon._config.backends.rclone_enabled
  mainPc,       \* main thread's position in Daemon.start, lines 265-279
  proc,         \* the batch the main thread is in: "pull", "sync" or "none"
  ppc,          \* its position in _pull_all / _sync_all
  waited,       \* wait_for_idle: time.time() - start
  idx,          \* index of the next watch path of the for loop
  gate,         \* how the batch got past the idle wait (history)
  cloudCalls    \* the rclone.pull / rclone.sync calls made, in order

\* ----------------------------------------------------- ShutdownHandler
VARIABLES
  shutdown_event, \* ShutdownHandler._shutdown_event
  tpc,            \* position of each caller of trigger_shutdown
  cidx,           \* each caller's index into _cleanup_callbacks
  runLog,         \* the callbacks run, in order, each with its caller
  running,        \* Daemon._running
  comp,           \* the daemon's components: config observer, watcher
                  \* (and its pending timer), health thread
  raises          \* the registered callbacks that raise when called

\* ------------------------------------------------- Daemon._reload_config
VARIABLES
  disk,           \* the config document in the config file
  dirty,          \* the file was written since the last reload started
  rpc,            \* position of the reload inside _reload_config
  read,           \* the document the running or last reload read (history)
  gen,            \* which load produced self._config: 0 is the startup load
  nReloads,       \* number of reloads started
  watchers,       \* every DebouncedWatcher built: subscribed roots, _running
  watcher,        \* Daemon._watcher, an index into watchers
  built,          \* for each entry of _backends, the load it was built from
  pre,            \* the daemon's state when the reload started (history)
  reloaded,       \* how the last reload ended
  seen            \* the last filesystem event and the watchers recording it

\* ------------------------------------------ Daemon._health_check_loop
VARIABLES
  hpc,                \* position of the health thread
  checks,             \* number of periodic checks made
  hlog,               \* each check made: is_healthy() and the call it led to
  restart_on_failure  \* _config.backends.restart_syncthing_on_failure

\* ------------------------------------------------ dgmt run / dgmt sync
VARIABLES
  cmd,            \* the command of the process: "run" or "sync"
  cpc,            \* position of the main thread in cmd_run / Daemon.start
  installed,      \* ShutdownHandler._installed
  up,             \* the components started and not stopped by _stop_internal
  subscribed,     \* the roots the watcher's observer has scheduled
  exit_code,      \* what main() returned, None while it runs
  err,            \* an exception reached cmd_run / main
  interrupted,    \* a SIGINT was delivered to the process
  cleanup_runs,   \* how many times the cleanup list has run
  sidx,           \* cmd_sync: index of the next watch path
  failed          \* cmd_sync: not success

\* ------------------------------------------------- Config._from_dict
VARIABLES
  settings,       \* the settings a config document carries
  flat,           \* the config loaded from the legacy flat document
  sectioned       \* the config loaded from the sectioned document

\* ------------------------------------------ daemon threads and a reload
VARIABLES
  mpc,            \* each worker's position in _pull_all / _sync_all
  mlocal,         \* each worker's locals: instance, and the loads read
  kcall,          \* the last callback the watcher's timer thread invoked
  hlocal,         \* health thread: the instance its local `syncthing` is
  hcheck,         \* the last health check made
  inflight,       \* the cloud transfers executing now
  locks           \* the rclone instances whose _lock is held

\* ------------------------------------------------- backend operations
VARIABLES
  bcall,          \* each caller's position, backend instance and operation
  block           \* the backend instances whose _lock is held

\* ------------------------------------------- ConfigFileHandler timers
VARIABLES
  rtimers,        \* every threading.Timer on_modified has created
  rdebounce,      \* ConfigFileHandler._debounce_timer: index in rtimers
  reload_lock,    \* Daemon._reload_lock: the timer thread holding it
  rnow            \* the clock, in ticks

aggVars == <<changes, first_event, last_event, timer, timers, now, hist,
             nEvents, calls>>
cfgVars == <<backends, watch_paths>>
syncVars == <<pull_on_startup, rclone_enabled, mainPc, proc, ppc, waited, idx,
              gate, cloudCalls>>
shutVars == <<shutdown_event, tpc, cidx, runLog, running, comp, raises>>
reloadVars == <<disk, dirty, rpc, read, gen, nReloads, watchers, watcher,
                built, pre, reloaded, seen>>
healthVars == <<hpc, checks, hlog, restart_on_failure>>
cliVars == <<cmd, cpc, installed, up, subscribed, exit_code, err, interrupted,
             cleanup_runs, sidx, failed>>
loadVars == <<settings, flat, sectioned>>
concVars == <<mpc, mlocal, kcall, hlocal, hcheck, inflight, locks>>
backVars == <<bcall, block>>
rtVars == <<rtimers, rdebounce, reload_lock, rnow>>

None == -1

\* the threads that call trigger_shutdown concurrently
Threads == {"t1", "t2"}

\* the callers of _run_cleanup: those threads and the atexit hook
Callers == Threads \cup {"atexit"}

\* Paths are tuples of components, as Path(path).parts gives them.
PA == <<"w", "a">>
PB == <<"w", "b">>
PGit == <<"w", ".git", "c">>
NoPath == <<>>
Paths == {PA, PB}
AllPaths == {PA, PB, PGit}

\* DebouncedHandler.DEFAULT_IGNORE
DEFAULT_IGNORE ==
  {".git", ".obsidian", "__pycache__", ".sync", ".stfolder", ".stversions"}

\* part.startswith("."), over the components the model uses
StartsWithDot(part) == part \in {".git", ".obsidian", ".sync", ".stfolder",
                                 ".stversions", ".", ".."}

\* DebouncedHandler._should_ignore
ShouldIgnore(path) ==
  \E i \in 1..Len(path) :
     \/ path[i] \in DEFAULT_IGNORE
     \/ (StartsWithDot(path[i]) /\ path[i] \notin {".", ".."})

\* ChangeSet()
EmptyChangeSet ==
  [created |-> {}, modified |-> {}, deleted |-> {}, renamed |-> {}]

\* ChangeSet.is_empty
IsEmpty(cs) ==
  cs.created = {} /\ cs.modified = {} /\ cs.deleted = {} /\ cs.renamed = {}

\* dict assignment d[k] = v, the dict being a set of <<key, value>> pairs
DictSet(d, k, v) == {x \in d : x[1] # k} \cup {<<k, v>>}
DictKeys(d) == {x[1] : x \in d}
DictValues(d) == {x[2] : x \in d}

\* The filesystem events the observer delivers.
FileEvent(kind, src, dest, isdir) ==
  [kind |-> kind, src_path |-> src, dest_path |-> dest, is_directory |-> isdir]
Events ==
  {FileEvent(k, s, NoPath, FALSE) :
      k \in {"created", "modified", "deleted"}, s \in Paths}
  \cup {FileEvent("moved", m[1], m[2], FALSE) :
           m \in {x \in Paths \X Paths : x[1] # x[2]}}
  \cup {FileEvent("modified", PGit, NoPath, FALSE),
        FileEvent("moved", PA, PGit, FALSE),
        FileEvent("modified", <<"w">>, NoPath, TRUE)}

\* _track_event, FileMovedEvent branch
TrackMoved(cs, src, dest) ==
  LET wasCreated == src \in cs.created
  IN [cs EXCEPT
        !.renamed = DictSet(cs.renamed, src, dest),
        !.created = IF wasCreated THEN (cs.created \ {src}) \cup {dest}
                    ELSE cs.created,
        !.deleted = cs.deleted \ {dest}]

\* _track_event, FileCreatedEvent branch
TrackCreated(cs, src) ==
  IF src \in cs.deleted
  THEN [cs EXCEPT !.created = cs.created \cup {src},
                  !.deleted = cs.deleted \ {src},
                  !.modified = cs.modified \cup {src}]
  ELSE [cs EXCEPT !.created = cs.created \cup {src}]

\* a delete that forgets the retract-the-create test
TrackDeletedNoRetract(cs, src) ==
  [cs EXCEPT !.deleted = cs.deleted \cup {src},
             !.modified = cs.modified \ {src}]

\* _track_event, FileDeletedEvent branch
TrackDeleted(cs, src) ==
  IF src \in cs.created
  THEN [cs EXCEPT !.created = cs.created \ {src},
                  !.modified = cs.modified \ {src}]
  ELSE [cs EXCEPT !.deleted = cs.deleted \cup {src},
                  !.modified = cs.modified \ {src}]

\* _track_event, FileModifiedEvent branch
TrackModified(cs, src) ==
  IF src \notin cs.created
  THEN [cs EXCEPT !.modified = cs.modified \cup {src}]
  ELSE cs

\* DebouncedHandler._track_event
TrackEvent(cs, e) ==
  CASE e.kind = "moved"    -> TrackMoved(cs, e.src_path, e.dest_path)
    [] e.kind = "created"  -> TrackCreated(cs, e.src_path)
    [] e.kind = "deleted"  -> TrackDeleted(cs, e.src_path)
    [] e.kind = "modified" -> TrackModified(cs, e.src_path)
    [] OTHER               -> cs

\* the max-wait test taken with > in place of >=
MaxWaitExceededStrict(elapsed) == elapsed > MaxWait

\* on_any_event: elapsed >= self.max_wait_seconds
MaxWaitExceeded(elapsed) == elapsed >= MaxWait

\* Number of positional arguments _trigger_callback passes to the callback,
\* and number of parameters (after self) Daemon._sync_all declares.
CallbackArgs == 1

\* a _sync_all that takes the ChangeSet the handler passes
SyncAllParamsChanges == CallbackArgs

SyncAllParams == 0

\* The rclone.sync calls one run of Daemon._sync_all makes: none without an
\* rclone backend, else one per configured watch path, in order.
SyncAllPaths(bk, wp) == IF "rclone" \in bk THEN wp ELSE <<>>

\* self.callback(changes) with callback = Daemon._sync_all, inside the
\* try/except of _trigger_callback: a call with the wrong number of arguments
\* raises TypeError before the body runs; the handler logs it.
InvokeCallback(cs, first, last, t, forced) ==
  LET ok == CallbackArgs = SyncAllParams
  IN [changes |-> cs, at |-> now, first |-> first, last |-> last,
      timer |-> t, forced |-> forced, lock_held |-> forced,
      error |-> IF ok THEN "none" ELSE "TypeError",
      synced |-> IF ok THEN SyncAllPaths(backends, watch_paths) ELSE <<>>]

\* a snapshot that leaves the renames behind
SnapshotNoRenamed(cs) == [cs EXCEPT !.renamed = {}]

\* _trigger_callback: changes = ChangeSet(created=..., modified=...,
\* deleted=..., renamed=...), a copy of each part of the live ChangeSet
Snapshot(cs) ==
  [created |-> cs.created, modified |-> cs.modified, deleted |-> cs.deleted,
   renamed |-> cs.renamed]

\* a timer thread that an error raised by the callback ends
AfterCallbackPropagates(error) == IF error = "none" THEN "done" ELSE "dead"

\* _trigger_callback: try: self.callback(changes) / except Exception: the
\* error is logged and _trigger_callback returns, so threading.Timer.run
\* returns as after a callback that raised nothing
AfterCallback(error) == "done"

\* threading.Timer.cancel(): sets the finished flag; a timer still waiting
\* will not call its function, one that has already passed the test will.
CancelTimer(ts, t) ==
  IF t = None THEN ts
  ELSE [ts EXCEPT ![t].cancelled = TRUE,
                  ![t].st = IF @ = "waiting" THEN "cancelled" ELSE @]

NewTimer(deadline) ==
  [st |-> "waiting", deadline |-> deadline, cancelled |-> FALSE,
   snap |-> EmptyChangeSet, first |-> None, last |-> None]

\* DebouncedHandler.on_any_event, the whole handler (it runs under _lock).
OnAnyEvent(e) ==
  /\ nEvents < MaxEvents
  /\ IF e.is_directory \/ ShouldIgnore(e.src_path)
     THEN UNCHANGED aggVars
     ELSE LET first   == IF first_event = None THEN now ELSE first_event
              tracked == TrackEvent(changes, e)
              stopped == CancelTimer(timers, timer)
              elapsed == now - first
          IN /\ nEvents' = nEvents + 1
             /\ IF MaxWaitExceeded(elapsed)
                THEN \* self._trigger_callback(), re-entering the RLock
                     /\ first_event' = None
                     /\ last_event' = None
                     /\ timer' = None
                     /\ changes' = EmptyChangeSet
                     /\ hist' = <<>>
                     /\ timers' = stopped
                     /\ calls' = Append(calls,
                                   InvokeCallback(Snapshot(tracked), first,
                                                  now, None, TRUE))
                ELSE /\ first_event' = first
                     /\ last_event' = now
                     /\ changes' = tracked
                     /\ hist' = Append(hist, e)
                     /\ timers' = Append(stopped, NewTimer(now + Debounce))
                     /\ timer' = Len(timers) + 1
                     /\ UNCHANGED calls
  /\ UNCHANGED <<now, cfgVars, reloadVars, healthVars, cliVars, loadVars,
                 concVars, backVars, rtVars, syncVars, shutVars>>

\* threading.Timer.run: the wait is over and the finished flag is not set;
\* the timer thread goes on to call _trigger_callback.
TimerExpire(t) ==
  /\ timers[t].st = "waiting"
  /\ now >= timers[t].deadline
  /\ timers' = [timers EXCEPT ![t].st = "expired"]
  /\ UNCHANGED <<changes, first_event, last_event, timer, now, hist, nEvents,
                 calls, cfgVars, reloadVars, healthVars, cliVars, loadVars,
                 concVars, backVars, rtVars, syncVars, shutVars>>

\* _trigger_callback, the part under the lock: reset and snapshot-and-clear.
TimerSnapshot(t) ==
  /\ timers[t].st = "expired"
  /\ timers' = [timers EXCEPT ![t].st = "calling",
                              ![t].snap = Snapshot(changes),
                              ![t].first = first_event,
                              ![t].last = last_event]
  /\ first_event' = None
  /\ last_event' = None
  /\ timer' = None
  /\ changes' = EmptyChangeSet
  /\ hist' = <<>>
  /\ UNCHANGED <<now, nEvents, calls, cfgVars, reloadVars, healthVars, cliVars,
                 loadVars, concVars, backVars, rtVars, syncVars, shutVars>>

\* _trigger_callback, after the lock is released: self.callback(changes).
TimerCallback(t) ==
  /\ timers[t].st = "calling"
  /\ calls' = Append(calls, InvokeCallback(timers[t].snap, timers[t].first,
                                           timers[t].last, t, FALSE))
  /\ timers' = [timers EXCEPT
                  ![t].st = AfterCallback(
                              InvokeCallback(timers[t].snap, timers[t].first,
                                             timers[t].last, t, FALSE).error),
                  ![t].snap = EmptyChangeSet,
                              ![t].first = None, ![t].last = None]
  /\ UNCHANGED <<changes, first_event, last_event, timer, now, hist, nEvents,
                 cfgVars, reloadVars, healthVars, cliVars, loadVars, concVars,
                 backVars, rtVars, syncVars, shutVars>>

\* Time passes.  A timer fires when its interval is over, and the steps of a
\* timer thread take no time.
Tick ==
  /\ now < MaxTime
  /\ \A t \in 1..Len(timers) :
        /\ timers[t].st = "waiting" => timers[t].deadline > now
        /\ timers[t].st \notin {"expired", "calling"}
  /\ now' = now + 1
  /\ UNCHANGED <<changes, first_event, last_event, timer, timers, hist,
                 nEvents, calls, cfgVars, reloadVars, healthVars, cliVars,
                 loadVars, concVars, backVars, rtVars, syncVars, shutVars>>

\* A freshly constructed aggregator: no event yet, no timer.
AggIdle ==
  /\ changes = EmptyChangeSet
  /\ first_event = None
  /\ last_event = None
  /\ timer = None
  /\ timers = <<>>
  /\ now = 0
  /\ hist = <<>>
  /\ nEvents = 0
  /\ calls = <<>>

\* The main thread is parked in wait_for_shutdown, no batch is running.
SyncIdle ==
  /\ mainPc = "running"
  /\ proc = "none"
  /\ ppc = "ret"
  /\ waited = 0
  /\ idx = 1
  /\ gate = "none"
  /\ cloudCalls = <<>>

\* ShutdownHandler(): latch clear, nobody has called trigger_shutdown; the
\* daemon runs with its components started.
ShutIdle ==
  /\ shutdown_event = FALSE
  /\ tpc = [t \in Callers |-> "idle"]
  /\ cidx = [t \in Callers |-> 1]
  /\ runLog = <<>>
  /\ running = TRUE
  /\ comp = [config_observer |-> "running", watcher |-> "running",
             timer |-> "none", health |-> "alive", order |-> <<>>,
             reload_timer |-> "none"]
  /\ raises = {}

\* a config document: well-formed ("ok"), not JSON at all ("malformed"), or
\* JSON whose sections are not objects ("bad_shape")
Document(kind, wp, rc) ==
  [kind |-> kind, watch_paths |-> wp, rclone_enabled |-> rc]

NoDocument == Document("none", <<>>, FALSE)

\* ConfigData(): hub.watch_paths = [], backends.rclone_enabled = False
DefaultConfig == Document("ok", <<>>, FALSE)

\* the watch roots that exist on disk; "n" does not
ExistingRoots == {"w", "v", "u"}

\* DebouncedWatcher.watch_all: only the paths that exist are subscribed
WatchAll(wp) == {wp[i] : i \in 1..Len(wp)} \cap ExistingRoots

\* the roots under which some running watcher records events
Recording ==
  UNION {watchers[i].roots : i \in {j \in 1..Len(watchers) :
                                       watchers[j].running}}

\* the daemon's in-memory config, watch roots and backend set
DaemonState ==
  [watch_paths |-> watch_paths, rclone_enabled |-> rclone_enabled,
   gen |-> gen, recording |-> Recording, backends |-> backends,
   built |-> built]

NoEvent == [root |-> "none", by |-> {}]

\* DebouncedWatcher(...).watch_all(paths): the subscribed roots, whether its
\* observer runs, the roots with recorded and undelivered changes, whether
\* its debounce timer is pending, and the config load its debounce and
\* max-wait parameters were taken from
NewWatcher(wp, started, g) ==
  [roots |-> WatchAll(wp), running |-> started, pending |-> {},
   timer |-> FALSE, params |-> g]

\* Daemon.start has read the config file: the config is load 0, one watcher
\* runs over the existing roots, the backends are built from load 0.
ReloadIdle ==
  /\ disk = Document("ok", watch_paths, rclone_enabled)
  /\ dirty = FALSE
  /\ rpc = "idle"
  /\ read = NoDocument
  /\ gen = 0
  /\ nReloads = 0
  /\ watchers = <<NewWatcher(watch_paths, TRUE, 0)>>
  /\ watcher = 1
  /\ built = [b \in {"syncthing", "rclone"} |->
                IF b \in backends THEN 0 ELSE None]
  /\ pre = DaemonState
  /\ reloaded = "none"
  /\ seen = NoEvent

\* the health thread sleeps before its first periodic check
HealthIdle ==
  /\ hpc = "sleep"
  /\ checks = 0
  /\ hlog = <<>>
  /\ restart_on_failure = TRUE

\* no command is running in the modelled process
CliIdle ==
  /\ cmd = "run"
  /\ cpc = "wait"
  /\ installed = TRUE
  /\ up = {"config_observer", "watcher", "health"}
  /\ subscribed = WatchAll(watch_paths)
  /\ exit_code = None
  /\ err = FALSE
  /\ interrupted = FALSE
  /\ cleanup_runs = 0
  /\ sidx = 1
  /\ failed = FALSE

\* ConfigData(): the values of a config no document has been loaded into
DefaultData ==
  [loaded |-> FALSE,
   watch_paths |-> <<>>, debounce_seconds |-> 30, pull_on_startup |-> TRUE,
   rclone_remote |-> "dgmt", rclone_enabled |-> FALSE,
   syncthing_exe |-> "None", stop_syncthing_on_exit |-> TRUE,
   restart_syncthing_on_failure |-> TRUE,
   log_file |-> "/home/.dgmt/dgmt.log", log_level |-> "INFO"]

\* a document without a key
NoSettings == [k \in {} |-> 0]

\* no document is being loaded
LoadIdle ==
  /\ settings = NoSettings
  /\ flat = DefaultData
  /\ sectioned = DefaultData

\* the threads that run _sync_all or _pull_all: the main thread in
\* Daemon.start, and the watcher's timer thread through the callback
Workers == {"main", "trigger"}

\* the locals of _sync_all / _pull_all before their first assignment
NoLocals == [inst |-> None, timeout |-> None, paths |-> None, todo |-> 0]

\* no batch, trigger or health check is under way
ConcIdle ==
  /\ mpc = [th \in Workers |-> [op |-> "none", at |-> "idle"]]
  /\ mlocal = [th \in Workers |-> NoLocals]
  /\ kcall = [error |-> "none", during |-> {}, replaced |-> FALSE]
  /\ hlocal = None
  /\ hcheck = [target |-> None, current |-> None, settled |-> FALSE]
  /\ inflight = {}
  /\ locks = {}

\* nobody calls a backend
BackIdle ==
  /\ bcall = [c \in Threads |-> [pc |-> "idle", inst |-> "none",
                                  op |-> "none"]]
  /\ block = {}

\* the config file has not been written since the daemon started
RtIdle ==
  /\ rtimers = <<>>
  /\ rdebounce = None
  /\ reload_lock = None
  /\ rnow = 0

\* the groups every specification but their own leaves idle
OthersIdle == ConcIdle /\ BackIdle /\ RtIdle

\* The aggregator of a running daemon: constructed, subscribed, no event yet.
Init ==
  /\ AggIdle
  /\ backends = {"syncthing", "rclone"}
  /\ rclone_enabled = TRUE
  /\ pull_on_startup = FALSE
  /\ watch_paths = <<"w", "v">>
  /\ SyncIdle
  /\ ShutIdle
  /\ ReloadIdle
  /\ HealthIdle
  /\ CliIdle
  /\ LoadIdle
  /\ OthersIdle

Next ==
  \/ \E e \in Events : OnAnyEvent(e)
  \/ \E t \in 1..Len(timers) : TimerExpire(t)
  \/ \E t \in 1..Len(timers) : TimerSnapshot(t)
  \/ \E t \in 1..Len(timers) : TimerCallback(t)
  \/ Tick

vars == <<aggVars, cfgVars, syncVars, shutVars, reloadVars, healthVars,
          cliVars, loadVars, concVars, backVars, rtVars>>

Spec == Init /\ [][Next]_vars

\* ---------------------------------------------------- aggregator: claims
Created(p) == FileEvent("created", p, NoPath, FALSE)
Modified(p) == FileEvent("modified", p, NoPath, FALSE)
Deleted(p) == FileEvent("deleted", p, NoPath, FALSE)
Moved(p, q) == FileEvent("moved", p, q, FALSE)

\* the events of h that touch path p, in order
Touching(h, p) ==
  LET touches(e) == e.src_path = p \/ e.dest_path = p
  IN SelectSeq(h, touches)

\* the ChangeSet a sequence of events leaves, from the empty one
RECURSIVE Net(_)
Net(h) ==
  IF h = <<>> THEN EmptyChangeSet
  ELSE TrackEvent(Net(SubSeq(h, 1, Len(h) - 1)), h[Len(h)])

\* C1: in every reachable state no path is in more than one of the sets
\* created, modified and deleted.
C1_Exclusive ==
  /\ changes.created \cap changes.modified = {}
  /\ changes.created \cap changes.deleted = {}
  /\ changes.modified \cap changes.deleted = {}

\* C2: after delete(p) directly followed by create(p) in one quiet period,
\* p is in modified and in neither created nor deleted.
C2_DeleteThenCreate ==
  \A p \in Paths :
    (/\ Len(hist) >= 2
     /\ hist[Len(hist) - 1] = Deleted(p)
     /\ hist[Len(hist)] = Created(p))
    => (/\ p \in changes.modified
        /\ p \notin changes.created
        /\ p \notin changes.deleted)

\* the events of the period that touch p are create(p), modify(p)*, delete(p)
CreateThenDelete(p) ==
  LET h == Touching(hist, p)
  IN /\ Len(h) >= 2
     /\ h[1] = Created(p)
     /\ h[Len(h)] = Deleted(p)
     /\ \A i \in 2..(Len(h) - 1) : h[i] = Modified(p)

\* C3: a path with no earlier entry in the period that is created, possibly
\* modified, and then deleted is absent from created, modified, deleted and
\* renamed.
C3_CreateThenDelete ==
  \A p \in Paths :
    CreateThenDelete(p)
    => (/\ p \notin changes.created
        /\ p \notin changes.modified
        /\ p \notin changes.deleted
        /\ p \notin DictKeys(changes.renamed)
        /\ p \notin DictValues(changes.renamed))

\* create(p), modify(p), delete(p) have been tracked in one period
C3_Witness ==
  \E p \in Paths :
    /\ CreateThenDelete(p)
    /\ Len(Touching(hist, p)) = 3
    /\ first_event # None

\* C4: after rename(a->b) of a path a that was in created, b is in created
\* and a is in none of created, modified, deleted, nor a key of renamed.
C4_RenameOfCreated ==
  \A a \in Paths : \A b \in Paths \ {a} :
    (/\ Len(hist) >= 1
     /\ hist[Len(hist)] = Moved(a, b)
     /\ a \in Net(SubSeq(hist, 1, Len(hist) - 1)).created)
    => (/\ b \in changes.created
        /\ a \notin changes.created
        /\ a \notin changes.modified
        /\ a \notin changes.deleted
        /\ a \notin DictKeys(changes.renamed))

\* C5: a timer that was cancelled (and replaced) never invokes the callback,
\* and no callback is invoked for a period that recorded no event.
C5_ExactlyOneTrigger ==
  \A i \in 1..Len(calls) :
    /\ calls[i].timer # None => ~timers[calls[i].timer].cancelled
    /\ calls[i].first # None

\* C6: a trigger that is not a forced max-wait flush fires debounce_seconds
\* after the last event of its period, never earlier.
C6_DebounceTiming ==
  \A i \in 1..Len(calls) :
    ~calls[i].forced
    => (/\ calls[i].last # None
        /\ calls[i].at = calls[i].last + Debounce)

\* C7 as stated: the trigger fires no later than max_wait_seconds after the
\* first event of the period.
C7_HardCeiling ==
  /\ first_event # None => now - first_event <= MaxWait
  /\ \A i \in 1..Len(calls) :
       calls[i].first # None => calls[i].at - calls[i].first <= MaxWait

\* C7 as amended: the trigger fires less than max_wait_seconds plus
\* debounce_seconds after the first event of the period.
C7_LatencyBound ==
  /\ first_event # None => now - first_event < MaxWait + Debounce
  /\ \A i \in 1..Len(calls) :
       calls[i].first # None
       => calls[i].at - calls[i].first < MaxWait + Debounce

\* a debounce timer fired more than max_wait_seconds after the first event
C7_Witness ==
  \E i \in 1..Len(calls) :
    /\ calls[i].first # None
    /\ ~calls[i].forced
    /\ calls[i].at - calls[i].first > MaxWait

\* C8: every firing of the trigger in a daemon that holds an rclone backend
\* runs the sync path, which calls rclone.sync once per watch path.
C8_TriggerLeadsToSync ==
  \A i \in 1..Len(calls) :
    "rclone" \in backends
    => (/\ calls[i].error = "none"
        /\ calls[i].synced = watch_paths)

\* the live ChangeSet is the net of the events tracked since the snapshot
ChangesAreNetOfHist == changes = Net(hist)

\* the paths a ChangeSet mentions, in any of its four parts
Mentioned(cs) ==
  cs.created \cup cs.modified \cup cs.deleted
    \cup DictKeys(cs.renamed) \cup DictValues(cs.renamed)

\* C20: no path that the ignore rule matches (a component in the ignore set
\* or beginning with a dot) appears in a ChangeSet, pending or delivered, as
\* created, modified, deleted, or source or destination of a rename.
C20_NoIgnoredPath ==
  /\ \A p \in Mentioned(changes) : ~ShouldIgnore(p)
  /\ \A i \in 1..Len(calls) :
        \A p \in Mentioned(calls[i].changes) : ~ShouldIgnore(p)

\* the latest invocation of the callback
LastCall == calls[Len(calls)]

\* the aggregator is reset: empty ChangeSet, no period start, no timer
IsReset(cs, first, t) == IsEmpty(cs) /\ first = None /\ t = None

\* C21: a callback that raises is contained.  The timer thread that called
\* it returns normally; the aggregator was reset before the call and the
\* raise changes nothing of it; and a qualifying event handled after a
\* raising call opens a period with a debounce timer, like any other.
C21_CallbackErrorContained ==
  /\ [](\A i \in 1..Len(calls) :
          (calls[i].error # "none" /\ calls[i].timer # None)
          => timers[calls[i].timer].st = "done")
  /\ [][(calls' # calls /\ LastCall'.error # "none")
        => IF LastCall'.forced
           THEN IsReset(changes', first_event', timer')
           ELSE UNCHANGED <<changes, first_event, last_event, timer>>]_vars
  /\ [][(/\ \E i \in 1..Len(calls) : calls[i].error # "none"
         /\ nEvents' = nEvents + 1
         /\ calls' = calls)
        => (/\ first_event' # None
            /\ timer' # None
            /\ timers'[timer'].st = "waiting"
            /\ timers'[timer'].deadline = now + Debounce)]_vars

\* the callback raised, and the period opened by a later event was
\* triggered by its debounce timer
C21_Witness ==
  /\ Len(calls) >= 2
  /\ calls[1].error # "none"
  /\ ~calls[2].forced
  /\ calls[2].first # None
  /\ calls[2].first >= calls[1].at
  /\ ~IsEmpty(calls[2].changes)

\* C27: no invocation of the trigger callback, on the timer path or on the
\* forced max-wait path, is made while the aggregator lock is held.
C27_CallbackOutsideLock ==
  \A i \in 1..Len(calls) : ~calls[i].lock_held

\* the timers that are scheduled: started, not cancelled, snapshot not taken
Scheduled ==
  {t \in 1..Len(timers) :
     timers[t].st \in {"waiting", "expired"} /\ ~timers[t].cancelled}

\* C29: the _timer field is non-null iff a trigger is scheduled; at most one
\* timer is scheduled and the field refers to it.
C29_TimerFieldInvariant ==
  /\ (timer # None) <=> (Scheduled # {})
  /\ Cardinality(Scheduled) <= 1
  /\ timer # None => Scheduled = {timer}

\* C30: the ChangeSet a callback receives is the net of the events tracked
\* since the previous snapshot; the live ChangeSet and the period start are
\* empty right after the snapshot; an event handled while a timer fires goes
\* into the period's history once, so into exactly one snapshot.
C30_SnapshotAtomic ==
  /\ []ChangesAreNetOfHist
  /\ [][\A t \in 1..Len(timers) :
          (timers[t].st = "expired" /\ timers'[t].st = "calling")
          => (/\ timers'[t].snap = Net(hist)
              /\ IsEmpty(changes')
              /\ first_event' = None
              /\ hist' = <<>>)]_vars
  /\ [][calls' # calls
        => IF LastCall'.forced
           THEN /\ \E e \in Events : LastCall'.changes = Net(Append(hist, e))
                /\ IsEmpty(changes')
                /\ first_event' = None
                /\ hist' = <<>>
           ELSE /\ LastCall'.changes = timers[LastCall'.timer].snap
                /\ UNCHANGED <<changes, hist>>]_vars
  /\ [][(nEvents' = nEvents + 1 /\ calls' = calls)
        => (/\ \E e \in Events : hist' = Append(hist, e)
            /\ \A t \in 1..Len(timers) : timers'[t].snap = timers[t].snap)]_vars

\* an event was handled between the end of a timer's wait and its snapshot,
\* and the snapshot holds it
C30_Witness ==
  \E t \in 1..Len(timers) :
    /\ timers[t].st = "calling"
    /\ timers[t].cancelled
    /\ ~IsEmpty(timers[t].snap)
    /\ IsEmpty(changes)

\* ------------------------------------------- daemon start: pull and sync
\* timeout=120 passed to wait_for_idle; its default poll_interval
IdleTimeout == 120
PollInterval == 2

\* wait_for_idle: while time.time() - start < timeout
WaitContinues(w) == w < IdleTimeout

\* a batch that goes on to the cloud calls whatever is_idle() said
AfterIsIdleNoWait(idle) == "loop"

\* _sync_all / _pull_all: if not syncthing.is_idle(): wait_for_idle(...)
AfterIsIdle(idle) == IF idle THEN "loop" ELSE "wait"

\* Daemon.start: if pull_on_startup and rclone_enabled: self._pull_all()
StartPull ==
  /\ mainPc = "pull_on_startup"
  /\ IF pull_on_startup /\ rclone_enabled
     THEN /\ mainPc' = "in_pull"
          /\ proc' = "pull"
          /\ ppc' = "entry"
     ELSE /\ mainPc' = "initial_sync"
          /\ UNCHANGED <<proc, ppc>>
  /\ UNCHANGED <<pull_on_startup, rclone_enabled, waited, idx, gate,
                 cloudCalls, aggVars, cliVars, loadVars, concVars, backVars,
                 rtVars, cfgVars, reloadVars, healthVars, shutVars>>

\* Daemon.start: time.sleep(2) after the pull
Settle ==
  /\ mainPc = "settle"
  /\ mainPc' = "initial_sync"
  /\ UNCHANGED <<pull_on_startup, rclone_enabled, proc, ppc, waited, idx, gate,
                 cloudCalls, aggVars, cliVars, loadVars, concVars, backVars,
                 rtVars, cfgVars, reloadVars, healthVars, shutVars>>

\* Daemon.start: if rclone_enabled: self._sync_all()
StartSync ==
  /\ mainPc = "initial_sync"
  /\ IF rclone_enabled
     THEN /\ mainPc' = "in_sync"
          /\ proc' = "sync"
          /\ ppc' = "entry"
     ELSE /\ mainPc' = "running"
          /\ UNCHANGED <<proc, ppc>>
  /\ UNCHANGED <<pull_on_startup, rclone_enabled, waited, idx, gate,
                 cloudCalls, aggVars, cliVars, loadVars, concVars, backVars,
                 rtVars, cfgVars, reloadVars, healthVars, shutVars>>

\* the batch returns to Daemon.start
ReturnToStart ==
  /\ mainPc' = IF proc = "pull" THEN "settle" ELSE "running"
  /\ proc' = "none"
  /\ ppc' = "ret"
  /\ gate' = "none"
  /\ idx' = 1
  /\ waited' = 0

\* _sync_all / _pull_all: rclone = self._backends.get("rclone"); return if
\* there is none; syncthing = self._backends.get("syncthing").
BatchEntry ==
  /\ proc # "none"
  /\ ppc = "entry"
  /\ IF "rclone" \notin backends
     THEN ReturnToStart
     ELSE /\ ppc' = IF "syncthing" \in backends THEN "is_idle" ELSE "loop"
          /\ UNCHANGED <<mainPc, proc, gate, idx, waited>>
  /\ UNCHANGED <<pull_on_startup, rclone_enabled, cloudCalls, aggVars, cliVars,
                 loadVars, concVars, backVars, rtVars, cfgVars, reloadVars,
                 healthVars, shutVars>>

\* _sync_all / _pull_all: if not syncthing.is_idle(); the peer's answer is
\* the environment's.
BatchIsIdle(idle) ==
  /\ ppc = "is_idle"
  /\ ppc' = AfterIsIdle(idle)
  /\ gate' = IF idle THEN "idle" ELSE gate
  /\ waited' = 0
  /\ UNCHANGED <<pull_on_startup, rclone_enabled, mainPc, proc, idx,
                 cloudCalls, aggVars, cliVars, loadVars, concVars, backVars,
                 rtVars, cfgVars, reloadVars, healthVars, shutVars>>

\* SyncthingBackend.wait_for_idle, one turn of the loop: return True when
\* is_idle(), else sleep poll_interval.
WaitForIdlePoll(idle) ==
  /\ ppc = "wait"
  /\ WaitContinues(waited)
  /\ IF idle
     THEN /\ ppc' = "loop"
          /\ gate' = "waited"
          /\ UNCHANGED waited
     ELSE /\ waited' = waited + PollInterval
          /\ UNCHANGED <<ppc, gate>>
  /\ UNCHANGED <<pull_on_startup, rclone_enabled, mainPc, proc, idx,
                 cloudCalls, aggVars, cliVars, loadVars, concVars, backVars,
                 rtVars, cfgVars, reloadVars, healthVars, shutVars>>

\* SyncthingBackend.wait_for_idle gives up and returns False; the daemon
\* logs the warning and proceeds.
WaitForIdleTimeout ==
  /\ ppc = "wait"
  /\ ~WaitContinues(waited)
  /\ ppc' = "loop"
  /\ gate' = "timeout"
  /\ UNCHANGED <<pull_on_startup, rclone_enabled, mainPc, proc, idx, waited,
                 cloudCalls, aggVars, cliVars, loadVars, concVars, backVars,
                 rtVars, cfgVars, reloadVars, healthVars, shutVars>>

\* a batch that a raising call ends
NextPathStopOnRaise(i, outcome) ==
  IF outcome = "raise" THEN Len(watch_paths) + 1 ELSE i + 1

\* _sync_all / _pull_all: the try/except is inside the for loop and the
\* result of the call is not looked at, so the loop goes on to the next path
NextPath(i, outcome) == i + 1

\* for path in watch_paths: rclone.sync(path) / rclone.pull(path, timeout),
\* inside try/except; the call returns True or False or raises.
BatchCall(outcome) ==
  /\ ppc = "loop"
  /\ idx <= Len(watch_paths)
  /\ cloudCalls' = Append(cloudCalls,
                     [op |-> proc, path |-> watch_paths[idx], gate |-> gate,
                      outcome |-> outcome])
  /\ idx' = NextPath(idx, outcome)
  /\ UNCHANGED <<pull_on_startup, rclone_enabled, mainPc, proc, ppc, waited,
                 gate, aggVars, cliVars, loadVars, concVars, backVars, rtVars,
                 cfgVars, reloadVars, healthVars, shutVars>>

\* the for loop is over
BatchReturn ==
  /\ ppc = "loop"
  /\ idx > Len(watch_paths)
  /\ ReturnToStart
  /\ UNCHANGED <<pull_on_startup, rclone_enabled, cloudCalls, aggVars, cliVars,
                 loadVars, concVars, backVars, rtVars, cfgVars, reloadVars,
                 healthVars, shutVars>>

\* Daemon.start has started the watcher and the health thread (line 263).
SyncInit ==
  /\ AggIdle
  /\ ShutIdle
  /\ rclone_enabled \in BOOLEAN
  /\ pull_on_startup \in BOOLEAN
  /\ backends = {"syncthing"} \cup (IF rclone_enabled THEN {"rclone"} ELSE {})
  /\ watch_paths = <<"w", "v">>
  /\ mainPc = "pull_on_startup"
  /\ proc = "none"
  /\ ppc = "ret"
  /\ waited = 0
  /\ idx = 1
  /\ gate = "none"
  /\ cloudCalls = <<>>
  /\ ReloadIdle
  /\ HealthIdle
  /\ CliIdle
  /\ LoadIdle
  /\ OthersIdle

SyncNext ==
  \/ StartPull
  \/ Settle
  \/ StartSync
  \/ BatchEntry
  \/ \E idle \in BOOLEAN : BatchIsIdle(idle)
  \/ \E idle \in BOOLEAN : WaitForIdlePoll(idle)
  \/ WaitForIdleTimeout
  \/ \E outcome \in {"true", "false", "raise"} : BatchCall(outcome)
  \/ BatchReturn

SpecSync == SyncInit /\ [][SyncNext]_vars

\* The main thread keeps running: every call it makes returns (the HTTP
\* requests and the subprocesses have timeouts, the sleeps end).
FairSpecSync == SpecSync /\ WF_vars(SyncNext)

CallsOf(op) ==
  LET isOp(c) == c.op = op
  IN SelectSeq(cloudCalls, isOp)

\* C9: no cloud call is made before the peer reported idle or wait_for_idle
\* returned, and a batch that reached the idle test makes its cloud calls for
\* every watch path whatever the peer answers.
C9_IdleWait ==
  /\ [](\A i \in 1..Len(cloudCalls) : cloudCalls[i].gate # "none")
  /\ \A op \in {"pull", "sync"} :
       (proc = op /\ ppc = "is_idle")
         ~> (Len(CallsOf(op)) = Len(watch_paths))

\* the peer never became idle, the wait timed out, the cloud call was made
C9_Witness ==
  \E i \in 1..Len(cloudCalls) :
    /\ cloudCalls[i].gate = "timeout"
    /\ waited >= IdleTimeout

\* the paths of the calls of a batch, in order
PathsOf(op) == [i \in 1..Len(CallsOf(op)) |-> CallsOf(op)[i].path]

\* C25: in the pull batch and in the sync batch the cloud backend is called
\* for the watch paths in order, and a batch that has returned has called it
\* for every watch path, whatever each call returned or raised.
C25_PerPathIsolation ==
  \A op \in {"pull", "sync"} :
    /\ Len(PathsOf(op)) <= Len(watch_paths)
    /\ PathsOf(op) = SubSeq(watch_paths, 1, Len(PathsOf(op)))
    /\ (PathsOf(op) # <<>> /\ proc # op) => PathsOf(op) = watch_paths

\* a batch whose first call raised has returned after its last call
C25_Witness ==
  \E op \in {"pull", "sync"} :
    /\ proc # op
    /\ Len(CallsOf(op)) = Len(watch_paths)
    /\ CallsOf(op)[1].outcome = "raise"
    /\ CallsOf(op)[2].outcome = "false"

\* ----------------------------------------------------- ShutdownHandler
\* number of registered cleanup callbacks
NumCleanups == 2

LogEntry(t, cb, k, raised) == [by |-> t, cb |-> cb, k |-> k, raised |-> raised]

\* trigger_shutdown: if self._shutdown_event.is_set(): return
TestLatch(t) ==
  /\ tpc[t] = "idle"
  /\ tpc' = [tpc EXCEPT ![t] = IF shutdown_event THEN "done" ELSE "passed"]
  /\ UNCHANGED <<shutdown_event, cidx, runLog, running, comp, raises, aggVars,
                 cliVars, loadVars, concVars, backVars, rtVars, cfgVars,
                 reloadVars, healthVars, syncVars>>

\* trigger_shutdown: self._shutdown_event.set()
SetLatch(t) ==
  /\ tpc[t] = "passed"
  /\ shutdown_event' = TRUE
  /\ tpc' = [tpc EXCEPT ![t] = "callback"]
  /\ UNCHANGED <<cidx, runLog, running, comp, raises, aggVars, cliVars,
                 loadVars, concVars, backVars, rtVars, cfgVars, reloadVars,
                 healthVars, syncVars>>

\* comp.order lists the components in the order _stop_internal first dealt
\* with them
Stopped(c, name) ==
  IF \E i \in 1..Len(c.order) : c.order[i] = name THEN c
  ELSE [c EXCEPT !.order = Append(@, name)]

\* a shutdown callback that returns right after its first step
AfterStopStepSkip(step) == "callback_ret"

\* Daemon._stop_internal: the step that follows each of its steps
AfterStopStep(step) ==
  CASE step = "callback"     -> "stop_watcher"
    [] step = "stop_watcher" -> "join_health"
    [] step = "join_health"  -> "callback_ret"

\* _stop_internal: self._running = False; stop and join (2 s) the config
\* observer if there is one.
StopConfigWatcher(t) ==
  /\ tpc[t] = "callback"
  /\ running' = FALSE
  /\ comp' = Stopped([comp EXCEPT !.config_observer =
                                     IF @ = "running" THEN "stopped" ELSE @],
                      "config_observer")
  /\ tpc' = [tpc EXCEPT ![t] = AfterStopStep("callback")]
  /\ UNCHANGED <<shutdown_event, cidx, runLog, raises, aggVars, cliVars,
                 loadVars, concVars, backVars, rtVars, cfgVars, reloadVars,
                 healthVars, syncVars>>

\* _stop_internal: self._watcher.stop(), which returns at once when the
\* watcher is not running, else cancels the pending timer, stops the observer
\* and joins it (5 s).
StopAggregator(t) ==
  /\ tpc[t] = "stop_watcher"
  /\ comp' = Stopped(IF comp.watcher = "running"
                      THEN [comp EXCEPT !.watcher = "stopped",
                                        !.timer = IF @ = "pending"
                                                  THEN "cancelled" ELSE @]
                      ELSE comp,
                      "watcher")
  /\ tpc' = [tpc EXCEPT ![t] = AfterStopStep("stop_watcher")]
  /\ UNCHANGED <<shutdown_event, cidx, runLog, running, raises, aggVars,
                 cliVars, loadVars, concVars, backVars, rtVars, cfgVars,
                 reloadVars, healthVars, syncVars>>

\* _stop_internal: if the health thread is alive, join(timeout=2); the join
\* returns whether or not the thread has exited by then.
JoinHealth(t) ==
  /\ tpc[t] = "join_health"
  /\ comp' = Stopped(comp, "health_thread")
  /\ tpc' = [tpc EXCEPT ![t] = AfterStopStep("join_health")]
  /\ UNCHANGED <<shutdown_event, cidx, runLog, running, raises, aggVars,
                 cliVars, loadVars, concVars, backVars, rtVars, cfgVars,
                 reloadVars, healthVars, syncVars>>

\* _health_check_loop: the loop finds _running False and the thread ends
HealthExit ==
  /\ comp.health = "alive"
  /\ ~running
  /\ comp' = [comp EXCEPT !.health = "exited"]
  /\ UNCHANGED <<shutdown_event, tpc, cidx, runLog, running, raises, aggVars,
                 cliVars, loadVars, concVars, backVars, rtVars, cfgVars,
                 reloadVars, healthVars, syncVars>>

\* ConfigFileHandler.on_modified started threading.Timer(0.5,
\* _reload_config); nothing cancels it but a later on_modified, so it fires,
\* and _reload_config starts, whether or not the daemon is still running.
ReloadTimerFires ==
  /\ comp.reload_timer = "pending"
  /\ comp' = [comp EXCEPT !.reload_timer =
                            IF running THEN "fired" ELSE "fired_stopped"]
  /\ UNCHANGED <<shutdown_event, tpc, cidx, runLog, running, raises, aggVars,
                 cliVars, loadVars, concVars, backVars, rtVars, cfgVars,
                 reloadVars, healthVars, syncVars>>

\* trigger_shutdown: self._shutdown_callback() returns or raises, inside
\* try/except Exception
ShutdownCallback(t) ==
  /\ tpc[t] = "callback_ret"
  /\ runLog' = Append(runLog, LogEntry(t, "main", 0, 0 \in raises))
  /\ tpc' = [tpc EXCEPT ![t] = "cleanup"]
  /\ cidx' = [cidx EXCEPT ![t] = 1]
  /\ UNCHANGED <<shutdown_event, running, comp, raises, aggVars, cliVars,
                 loadVars, concVars, backVars, rtVars, cfgVars, reloadVars,
                 healthVars, syncVars>>

\* a cleanup loop that a raising callback ends
NextCleanupStopOnRaise(i, raised) ==
  IF raised THEN NumCleanups + 1 ELSE i + 1

\* _run_cleanup: the for loop goes on to the next callback whether the
\* callback returned or raised (try/except Exception inside the loop)
NextCleanup(i, raised) == i + 1

\* _run_cleanup: the next callback of the list, inside try/except
RunCleanup(t) ==
  /\ tpc[t] = "cleanup"
  /\ cidx[t] <= NumCleanups
  /\ runLog' = Append(runLog,
                      LogEntry(t, "cleanup", cidx[t], cidx[t] \in raises))
  /\ cidx' = [cidx EXCEPT ![t] = NextCleanup(@, @ \in raises)]
  /\ UNCHANGED <<shutdown_event, tpc, running, comp, raises, aggVars, cliVars,
                 loadVars, concVars, backVars, rtVars, cfgVars, reloadVars,
                 healthVars, syncVars>>

\* _run_cleanup and trigger_shutdown return
CleanupReturn(t) ==
  /\ tpc[t] = "cleanup"
  /\ cidx[t] > NumCleanups
  /\ tpc' = [tpc EXCEPT ![t] = "done"]
  /\ UNCHANGED <<shutdown_event, cidx, runLog, running, comp, raises, aggVars,
                 cliVars, loadVars, concVars, backVars, rtVars, cfgVars,
                 reloadVars, healthVars, syncVars>>

\* install: atexit.register(self._run_cleanup).  The hook runs when the
\* process exits: the latch has released the main thread from
\* wait_for_shutdown and no caller is still inside trigger_shutdown.
AtExit ==
  /\ tpc["atexit"] = "idle"
  /\ shutdown_event
  /\ \A t \in Threads : tpc[t] \in {"idle", "done"}
  /\ tpc' = [tpc EXCEPT !["atexit"] = "cleanup"]
  /\ cidx' = [cidx EXCEPT !["atexit"] = 1]
  /\ UNCHANGED <<shutdown_event, runLog, running, comp, raises, aggVars,
                 cliVars, loadVars, concVars, backVars, rtVars, cfgVars,
                 reloadVars, healthVars, syncVars>>

\* the caller that is the signal handler: it runs in the main thread, on top
\* of the frame parked in wait_for_shutdown; the other caller is a thread
\* that called Daemon.stop()
SignalHandler == "t1"

\* wait_for_shutdown: Event.wait() returns True once the latch is set, and
\* Daemon.start returns; the main thread gets there only when it is not
\* inside its signal handler
WaitForShutdown ==
  /\ mainPc = "running"
  /\ shutdown_event
  /\ tpc[SignalHandler] \in {"idle", "done"}
  /\ mainPc' = "returned"
  /\ UNCHANGED <<pull_on_startup, rclone_enabled, proc, ppc, waited, idx, gate,
                 cloudCalls, shutVars, aggVars, cliVars, loadVars, concVars,
                 backVars, rtVars, cfgVars, reloadVars, healthVars>>

\* A running daemon: callbacks registered (0 is the main shutdown callback,
\* 1..NumCleanups the cleanup list; any of them may be one that raises),
\* handlers installed, nobody has triggered shutdown.  The config observer
\* runs and the aggregator has a timer pending; the config file may have
\* been saved in the last half second, so that the reload timer is pending.
ShutInit ==
  /\ AggIdle
  /\ SyncIdle
  /\ shutdown_event = FALSE
  /\ tpc = [t \in Callers |-> "idle"]
  /\ cidx = [t \in Callers |-> 1]
  /\ runLog = <<>>
  /\ running = TRUE
  /\ comp \in [config_observer : {"running"}, watcher : {"running"},
               timer : {"pending"}, health : {"alive"}, order : {<<>>},
               reload_timer : {"none", "pending"}]
  /\ raises \in SUBSET (0..NumCleanups)
  /\ backends = {"syncthing", "rclone"}
  /\ rclone_enabled = TRUE
  /\ pull_on_startup = FALSE
  /\ watch_paths = <<"w", "v">>
  /\ ReloadIdle
  /\ HealthIdle
  /\ CliIdle
  /\ LoadIdle
  /\ OthersIdle

\* the steps of one caller of trigger_shutdown
CallerStep(t) ==
  \/ TestLatch(t)
  \/ SetLatch(t)
  \/ StopConfigWatcher(t)
  \/ StopAggregator(t)
  \/ JoinHealth(t)
  \/ ShutdownCallback(t)

\* _run_cleanup, run by a caller of trigger_shutdown or by the atexit hook
CleanupStep(t) ==
  \/ RunCleanup(t)
  \/ CleanupReturn(t)

ShutNext ==
  \/ \E t \in Threads : CallerStep(t)
  \/ \E t \in Callers : CleanupStep(t)
  \/ HealthExit
  \/ ReloadTimerFires
  \/ AtExit
  \/ WaitForShutdown

SpecShutdown == ShutInit /\ [][ShutNext]_vars

\* A thread inside trigger_shutdown keeps running: the joins of
\* _stop_internal have timeouts and the callbacks return or raise.
FairSpecShutdown ==
  SpecShutdown /\ \A t \in Threads : WF_vars(CallerStep(t) \/ CleanupStep(t))

\* the main and cleanup callbacks run so far by the callers in cs
RanBy(cs) ==
  LET mine(e) == e.by \in cs /\ e.cb \in {"main", "cleanup"}
      log == SelectSeq(runLog, mine)
  IN [i \in 1..Len(log) |-> <<log[i].cb, log[i].k>>]

\* main shutdown callback, then the cleanup list in registration order
FullRun ==
  <<(<<"main", 0>>)>> \o [k \in 1..NumCleanups |-> <<"cleanup", k>>]

TimesBy(cs, cb, k) ==
  Cardinality({i \in 1..Len(runLog) :
                 runLog[i].by \in cs /\ runLog[i].cb = cb /\ runLog[i].k = k})

\* C10: when two threads call trigger_shutdown concurrently, the main
\* shutdown callback and every cleanup callback run exactly once, the
\* cleanups in registration order.
C10_ShutdownOnce ==
  /\ TimesBy(Threads, "main", 0) <= 1
  /\ \A k \in 1..NumCleanups : TimesBy(Threads, "cleanup", k) <= 1
  /\ (\A t \in Threads : tpc[t] = "done") => RanBy(Threads) = FullRun

\* C11: over the whole process lifetime (trigger_shutdown from any source
\* and the process-exit hook) every cleanup callback runs at most once.
C11_CleanupAtMostOnce ==
  \A k \in 1..NumCleanups : TimesBy(Callers, "cleanup", k) <= 1

\* C12: each caller of trigger_shutdown runs the main shutdown callback and
\* then the cleanup callbacks in registration order, and has run all of them
\* when it returns, whichever of them raised.
C12_OrderAndIsolation ==
  \A t \in Threads :
    LET mine == RanBy({t})
    IN /\ Len(mine) <= Len(FullRun)
       /\ mine = SubSeq(FullRun, 1, Len(mine))
       /\ (tpc[t] = "done" /\ mine # <<>>) => mine = FullRun

\* a caller returned after its main callback and a cleanup callback raised
C12_Witness ==
  \E t \in Threads :
    /\ tpc[t] = "done"
    /\ RanBy({t}) = FullRun
    /\ \E i \in 1..Len(runLog) :
          runLog[i].by = t /\ runLog[i].cb = "main" /\ runLog[i].raised
    /\ \E i \in 1..Len(runLog) :
          /\ runLog[i].by = t /\ runLog[i].cb = "cleanup" /\ runLog[i].raised
          /\ runLog[i].k < NumCleanups

\* the order in which _stop_internal deals with the components
StopOrder == <<"config_observer", "watcher", "health_thread">>

ShutdownSequenceRan ==
  \E i \in 1..Len(runLog) :
    runLog[i].by \in Threads /\ runLog[i].cb = "main"

\* C28: once the shutdown sequence has run, no aggregator debounce timer and
\* no config-reload timer is pending, and no reload has started after the
\* daemon was stopped.
C28_NoTimerAfterShutdown ==
  ShutdownSequenceRan
    => (/\ comp.timer # "pending"
        /\ comp.reload_timer # "pending"
        /\ comp.reload_timer # "fired_stopped")

C37_WaitReleasesAfterCleanup ==
  mainPc = "returned"
    => /\ TimesBy(Threads, "main", 0) >= 1
       /\ \A k \in 1..NumCleanups : TimesBy(Threads, "cleanup", k) >= 1

\* ------------------------------------------------- Daemon._reload_config
\* number of reloads
MaxReloads == 2

\* the documents the user writes to the config file
Documents ==
  {Document("ok", wp, rc) :
     wp \in {<<"w", "v">>, <<"v", "u">>, <<"v", "n">>, <<"v">>},
     rc \in BOOLEAN}
  \cup {Document("malformed", <<>>, FALSE), Document("bad_shape", <<>>, FALSE)}

\* Config(): json.load raises JSONDecodeError on a malformed file and
\* _load_existing swallows it (except (JSONDecodeError, KeyError): pass);
\* _from_dict on a section that is not an object raises AttributeError,
\* which _load_existing lets through.
LoadRaises(doc) == doc.kind = "bad_shape"

\* Config().data: the document's fields, or ConfigData() untouched when the
\* JSON error was swallowed
Loaded(doc) == IF doc.kind = "ok" THEN doc ELSE DefaultConfig

PathSet(wp) == {wp[i] : i \in 1..Len(wp)}

\* a reload that rebuilds the watcher only when a path was added
WatchPathsChangedAddedOnly(old, new) ==
  PathSet(new) \ PathSet(old) # {}

\* a reload that rebuilds the watcher every time
WatchPathsChangedAlways(old, new) == TRUE

\* _reload_config: added = new - old; removed = old - new; added or removed
WatchPathsChanged(old, new) ==
  \/ PathSet(new) \ PathSet(old) # {}
  \/ PathSet(old) \ PathSet(new) # {}

\* the variables of the startup batches, which a reload leaves alone
syncRest == <<pull_on_startup, mainPc, proc, ppc, waited, idx, gate,
              cloudCalls>>

\* the user saves the config file
WriteConfig(doc) ==
  /\ nReloads < MaxReloads
  /\ doc # disk
  /\ disk' = doc
  /\ dirty' = TRUE
  /\ UNCHANGED <<rpc, read, gen, nReloads, watchers, watcher, built, pre,
                 reloaded, seen, rclone_enabled, syncRest, aggVars, cliVars,
                 loadVars, concVars, backVars, rtVars, cfgVars, shutVars,
                 healthVars>>

\* ConfigFileHandler.on_modified: the 0.5 s timer calls _reload_config, which
\* takes _reload_lock
ReloadStart ==
  /\ rpc = "idle"
  /\ dirty
  /\ nReloads < MaxReloads
  /\ rpc' = "load"
  /\ dirty' = FALSE
  /\ nReloads' = nReloads + 1
  /\ pre' = DaemonState
  /\ read' = NoDocument
  /\ reloaded' = "running"
  /\ UNCHANGED <<disk, gen, watchers, watcher, built, seen, rclone_enabled,
                 syncRest, aggVars, cliVars, loadVars, concVars, backVars,
                 rtVars, cfgVars, shutVars, healthVars>>

\* _reload_config: new_config = Config(); old and new path sets;
\* self._config = new_config.data.  An error raised by Config() is caught by
\* the except clause, which logs it.
LoadConfig ==
  /\ rpc = "load"
  /\ read' = disk
  /\ IF LoadRaises(disk)
     THEN /\ reloaded' = "error"
          /\ rpc' = "idle"
          /\ UNCHANGED <<watch_paths, rclone_enabled, gen>>
     ELSE /\ watch_paths' = Loaded(disk).watch_paths
          /\ rclone_enabled' = Loaded(disk).rclone_enabled
          /\ gen' = nReloads
          /\ rpc' = IF WatchPathsChanged(watch_paths,
                                         Loaded(disk).watch_paths)
                    THEN "rebuild" ELSE "backends"
          /\ UNCHANGED reloaded
  /\ UNCHANGED <<disk, dirty, nReloads, watchers, watcher, built, pre, seen,
                 backends, syncRest, aggVars, cliVars, loadVars, concVars,
                 backVars, rtVars, shutVars, healthVars>>

\* DebouncedWatcher.stop: nothing when it does not run; else
\* _handler.cancel() cancels the pending timer and leaves the handler's
\* ChangeSet as it is, then the observer is stopped
StopWatcher(w) ==
  IF w.running THEN [w EXCEPT !.running = FALSE, !.timer = FALSE] ELSE w

\* _reload_config: self._watcher.stop(); self._watcher = DebouncedWatcher();
\* watch_all(); start().  Observer.start() raises OSError when the OS
\* refuses the watches; the new watcher is then assigned but not running.
RebuildWatcher(startRaises) ==
  /\ rpc = "rebuild"
  /\ watchers' = Append([watchers EXCEPT ![watcher] = StopWatcher(@)],
                        NewWatcher(watch_paths, ~startRaises, gen))
  /\ watcher' = Len(watchers) + 1
  /\ rpc' = IF startRaises THEN "idle" ELSE "backends"
  /\ reloaded' = IF startRaises THEN "error" ELSE reloaded
  /\ UNCHANGED <<disk, dirty, read, gen, nReloads, built, pre, seen,
                 rclone_enabled, syncRest, aggVars, cliVars, loadVars,
                 concVars, backVars, rtVars, cfgVars, shutVars, healthVars>>

\* _init_backends: _backends["syncthing"] is replaced; _backends["rclone"]
\* is replaced only if rclone is enabled, and no entry is ever removed.
InitBackends ==
  /\ rpc = "backends"
  /\ built' = [built EXCEPT !["syncthing"] = gen,
                            !["rclone"] = IF rclone_enabled THEN gen ELSE @]
  /\ backends' = backends \cup {"syncthing"}
                   \cup (IF rclone_enabled THEN {"rclone"} ELSE {})
  /\ reloaded' = "ok"
  /\ rpc' = "idle"
  /\ UNCHANGED <<disk, dirty, read, gen, nReloads, watchers, watcher, pre,
                 seen, watch_paths, rclone_enabled, syncRest, aggVars, cliVars,
                 loadVars, concVars, backVars, rtVars, shutVars, healthVars>>

\* a filesystem event under a root: every running watcher subscribed to the
\* root records it and has its debounce timer pending
FsEvent(root) ==
  /\ seen' = [root |-> root,
              by |-> {i \in 1..Len(watchers) :
                        watchers[i].running /\ root \in watchers[i].roots}]
  /\ watchers' = [i \in 1..Len(watchers) |->
                    IF i \in seen'.by
                      THEN [watchers[i] EXCEPT !.pending = @ \cup {root},
                                               !.timer = TRUE]
                      ELSE watchers[i]]
  /\ seen' # seen \/ watchers' # watchers
  /\ UNCHANGED <<disk, dirty, rpc, read, gen, nReloads, watcher, built, pre,
                 reloaded, rclone_enabled, syncRest, aggVars, cliVars,
                 loadVars, concVars, backVars, rtVars, cfgVars, shutVars,
                 healthVars>>

\* the debounce timer of a watcher fires: _trigger_callback takes the
\* ChangeSet and hands it to the callback
Deliver(i) ==
  /\ watchers[i].timer
  /\ watchers' = [watchers EXCEPT ![i].pending = {}, ![i].timer = FALSE]
  /\ UNCHANGED <<disk, dirty, rpc, read, gen, nReloads, watcher, built, pre,
                 reloaded, seen, rclone_enabled, syncRest, aggVars, cliVars,
                 loadVars, concVars, backVars, rtVars, cfgVars, shutVars,
                 healthVars>>

\* A running daemon, started from a well-formed config file.
ReloadInit ==
  /\ AggIdle
  /\ SyncIdle
  /\ ShutIdle
  /\ HealthIdle
  /\ pull_on_startup = FALSE
  /\ watch_paths = <<"w", "v">>
  /\ rclone_enabled \in BOOLEAN
  /\ backends = {"syncthing"} \cup (IF rclone_enabled THEN {"rclone"} ELSE {})
  /\ ReloadIdle
  /\ CliIdle
  /\ LoadIdle
  /\ OthersIdle

ReloadNext ==
  \/ \E doc \in Documents : WriteConfig(doc)
  \/ ReloadStart
  \/ LoadConfig
  \/ \E startRaises \in BOOLEAN : RebuildWatcher(startRaises)
  \/ InitBackends
  \/ \E root \in ExistingRoots : FsEvent(root)
  \/ \E i \in 1..Len(watchers) : Deliver(i)

SpecReload == ReloadInit /\ [][ReloadNext]_vars

\* a pending timer fires and a reload that started runs on
FairSpecReload ==
  /\ SpecReload
  /\ \A i \in 1..(MaxReloads + 1) :
        WF_vars(i \in 1..Len(watchers) /\ Deliver(i))
  /\ WF_vars(LoadConfig \/ InitBackends
               \/ \E startRaises \in BOOLEAN : RebuildWatcher(startRaises))

\* a reload has ended: ok, or error (the except clause logged it)
ReloadEnded(how) == rpc = "idle" /\ reloaded = how

\* a successful reload whose watch-path set differs from the old one
ChangedOk ==
  /\ ReloadEnded("ok")
  /\ PathSet(pre.watch_paths) # PathSet(watch_paths)

\* C14: after a successful reload whose watch-path set differs from the old
\* one, exactly one aggregator runs, subscribed to exactly the existing roots
\* of the new set; an event under any other root is recorded by no
\* aggregator, an event under a root of the new set by the new one.
C14_RebuiltOverNewRoots ==
  /\ [](ChangedOk =>
          /\ watchers[watcher].running
          /\ watchers[watcher].roots = WatchAll(watch_paths)
          /\ \A i \in 1..Len(watchers) : watchers[i].running => i = watcher)
  /\ [][(ChangedOk /\ seen' # seen) =>
          seen'.by = IF seen'.root \in PathSet(watch_paths)
                     THEN {watcher} ELSE {}]_vars

\* after a reload from {w, v} to {v, u}: an event under the removed root w
\* was recorded by nobody, and the added root u is recorded
C14_Witness ==
  /\ ReloadEnded("ok")
  /\ "w" \in pre.recording
  /\ Recording = {"v", "u"}
  /\ seen.root = "w"
  /\ seen.by = {}

\* C15: when the new document cannot be loaded (and no later step of the
\* reload fails), the in-memory config, the recorded watch roots and the
\* backend set are as they were before the reload.
C15_LoadFailureKeepsState ==
  (\/ ReloadEnded("error") /\ read.kind = "bad_shape"
   \/ ReloadEnded("ok") /\ read.kind = "malformed")
    => DaemonState = pre

\* C16: when a reload that loaded a well-formed document ends with an
\* error, the in-memory config is the pre-reload config.
C16_AllOrNothing ==
  (ReloadEnded("error") /\ read.kind = "ok")
    => /\ watch_paths = pre.watch_paths
       /\ rclone_enabled = pre.rclone_enabled
       /\ gen = pre.gen

\* C17: after a successful reload the backend set is syncthing, plus rclone
\* iff the new settings enable it, each built from the new settings.
C17_BackendsMatchSettings ==
  ReloadEnded("ok")
    => /\ backends = {"syncthing"}
                       \cup (IF rclone_enabled THEN {"rclone"} ELSE {})
       /\ \A b \in backends : built[b] = gen

\* C34: a change an aggregator has recorded is eventually delivered to the
\* trigger callback, also when a reload stops that aggregator and builds a
\* new one.
C34_NoChangeDropped ==
  \A i \in 1..(MaxReloads + 1) : \A root \in ExistingRoots :
    (i \in 1..Len(watchers) /\ root \in watchers[i].pending)
      ~> (i \in 1..Len(watchers) /\ root \notin watchers[i].pending)

\* a step of a reload whose document has the watch-path set of the config
\* in memory
SamePathsStep ==
  /\ rpc' # rpc
  /\ \/ rpc = "load" /\ PathSet(watch_paths') = PathSet(watch_paths)
     \/ rpc = "backends" /\ PathSet(watch_paths) = PathSet(pre.watch_paths)

\* C40: a reload that leaves the watch-path set unchanged leaves the
\* aggregator untouched: the same instance stays subscribed, with its
\* pending changes, pending timer and parameters.
C40_SamePathsKeepWatcher ==
  /\ [][SamePathsStep => UNCHANGED <<watcher, watchers>>]_vars
  /\ []((ReloadEnded("ok") /\ PathSet(watch_paths) = PathSet(pre.watch_paths)
          /\ pre.gen = 0)
         => (watcher = 1 /\ watchers[1].running /\ watchers[1].params = 0))

\* a reload that only changed the rclone setting has ended while the
\* aggregator holds a recorded change and its timer is pending
C40_Witness ==
  /\ ReloadEnded("ok")
  /\ gen = 1
  /\ read.kind = "ok"
  /\ PathSet(watch_paths) = PathSet(pre.watch_paths)
  /\ rclone_enabled # pre.rclone_enabled
  /\ watcher = 1
  /\ watchers[1].pending # {}
  /\ watchers[1].timer

\* ------------------------------------------ Daemon._health_check_loop
\* number of periodic checks
MaxChecks == 3

\* the variables of the shutdown handler other than Daemon._running
shutRest == <<shutdown_event, tpc, cidx, runLog, comp, raises>>

\* what a call of the backend's start() or restart() does: return True,
\* return False, or raise.  SyncthingBackend.start and stop run systemctl,
\* pkill and the syncthing executable through subprocess with no try/except,
\* so a missing program raises FileNotFoundError out of start()/restart().
CallResults == {"true", "false", "raise"}

\* a health loop that restarts at every check
NeedsRestartAlways(flag, healthy) == TRUE

\* _health_check_loop: if restart_syncthing_on_failure: if not is_healthy()
NeedsRestart(flag, healthy) == flag /\ ~healthy

\* one check of the loop: the backend's health and the call it led to
CheckEntry(n, healthy, op, result) ==
  [check |-> n, healthy |-> healthy, op |-> op, result |-> result]

\* where the thread is after a check: an exception raised by the backend
\* call is caught nowhere in _health_check_loop and ends the thread
AfterCheck(called, result) ==
  IF called /\ result = "raise" THEN "dead" ELSE "sleep"

\* _health_check_loop, before the loop: start the backend if it is not
\* healthy
InitialCheck(healthy, result) ==
  /\ hpc = "initial"
  /\ LET called == NeedsRestart(restart_on_failure, healthy)
     IN /\ hlog' = Append(hlog, IF called
                                THEN CheckEntry(0, healthy, "start", result)
                                ELSE CheckEntry(0, healthy, "none", "none"))
        /\ hpc' = AfterCheck(called, result)
  /\ UNCHANGED <<checks, restart_on_failure, running, shutRest, aggVars,
                 cliVars, loadVars, concVars, backVars, rtVars, cfgVars,
                 syncVars, reloadVars>>

\* _health_check_loop, lines 205-209: while self._running, sleep, and
\* _running is still set after the sleep
PeriodicWake ==
  /\ hpc = "sleep"
  /\ running
  /\ checks < MaxChecks
  /\ checks' = checks + 1
  /\ hpc' = "check"
  /\ UNCHANGED <<hlog, restart_on_failure, running, shutRest, aggVars, cliVars,
                 loadVars, concVars, backVars, rtVars, cfgVars, syncVars,
                 reloadVars>>

\* _health_check_loop, lines 211-217: is_healthy() (an HTTP request with a
\* 5 s timeout), and restart() of the backend if it is not healthy
PeriodicCheck(healthy, result) ==
  /\ hpc = "check"
  /\ LET called == NeedsRestart(restart_on_failure, healthy)
     IN /\ hlog' = Append(hlog,
                          IF called
                          THEN CheckEntry(checks, healthy, "restart", result)
                          ELSE CheckEntry(checks, healthy, "none", "none"))
        /\ hpc' = AfterCheck(called, result)
  /\ UNCHANGED <<checks, restart_on_failure, running, shutRest, aggVars,
                 cliVars, loadVars, concVars, backVars, rtVars, cfgVars,
                 syncVars, reloadVars>>

\* _health_check_loop: while self._running / if not self._running: break
HealthLoopExit ==
  /\ hpc = "sleep"
  /\ ~running
  /\ hpc' = "exited"
  /\ UNCHANGED <<checks, hlog, restart_on_failure, running, shutRest, aggVars,
                 cliVars, loadVars, concVars, backVars, rtVars, cfgVars,
                 syncVars, reloadVars>>

\* _stop_internal: self._running = False
ClearRunning ==
  /\ running
  /\ running' = FALSE
  /\ UNCHANGED <<healthVars, shutRest, aggVars, cliVars, loadVars, concVars,
                 backVars, rtVars, cfgVars, syncVars, reloadVars>>

\* _stop_internal: self._health_thread.join(timeout=2) returns, the thread
\* having ended or not, and the shutdown callback returns
StopInternalReturn ==
  /\ ~running
  /\ comp.order = <<>>
  /\ comp' = Stopped(comp, "health_thread")
  /\ UNCHANGED <<shutdown_event, tpc, cidx, runLog, raises, running,
                 healthVars, aggVars, cliVars, loadVars, concVars, backVars,
                 rtVars, cfgVars, syncVars, reloadVars>>

\* Daemon.start has started the health thread
HealthInit ==
  /\ AggIdle
  /\ SyncIdle
  /\ ShutIdle
  /\ backends = {"syncthing", "rclone"}
  /\ rclone_enabled = TRUE
  /\ pull_on_startup = FALSE
  /\ watch_paths = <<"w", "v">>
  /\ ReloadIdle
  /\ CliIdle
  /\ LoadIdle
  /\ OthersIdle
  /\ hpc = "initial"
  /\ checks = 0
  /\ hlog = <<>>
  /\ restart_on_failure \in BOOLEAN

HealthNext ==
  \/ \E healthy \in BOOLEAN, result \in CallResults :
        InitialCheck(healthy, result)
  \/ \E healthy \in BOOLEAN, result \in CallResults :
        PeriodicCheck(healthy, result)
  \/ PeriodicWake
  \/ HealthLoopExit
  \/ ClearRunning
  \/ StopInternalReturn

SpecHealth == HealthInit /\ [][HealthNext]_vars

\* the periodic checks made so far, in order (the check before the loop is
\* check 0)
Periodic ==
  LET inLoop(e) == e.check >= 1
  IN SelectSeq(hlog, inLoop)

\* at every periodic check: restart() is called, once, exactly when the
\* backend is not healthy, and start() is never called
RestartsExactlyOnFailure ==
  /\ \A i \in 1..Len(Periodic) :
        /\ Periodic[i].check = i
        /\ Periodic[i].op = IF Periodic[i].healthy THEN "none" ELSE "restart"

\* C18 as stated: whatever the settings, a periodic check that finds the
\* backend unhealthy calls restart() exactly once, and a check that finds it
\* healthy calls neither restart() nor start().
C18_RestartOnceOnFailure == RestartsExactlyOnFailure

\* C18, amended: the same when restart_syncthing_on_failure is set; when it
\* is not set, no check calls restart() or start().
C18_RestartOnceIfEnabled ==
  IF restart_on_failure
  THEN RestartsExactlyOnFailure
  ELSE \A i \in 1..Len(hlog) : hlog[i].op = "none"

\* unhealthy at check 1 and restarted there, healthy at checks 2 and 3 and
\* left alone
C18_Witness ==
  /\ restart_on_failure
  /\ Len(Periodic) = 3
  /\ ~Periodic[1].healthy /\ Periodic[1].op = "restart"
  /\ Periodic[2].healthy /\ Periodic[2].op = "none"
  /\ Periodic[3].healthy /\ Periodic[3].op = "none"

C38_NoRestartAfterShutdown ==
  [][(comp.order # <<>> /\ hlog' # hlog)
       => hlog'[Len(hlog')].op = "none"]_vars

\* ------------------------------------------------ dgmt run / dgmt sync
\* One process runs main() with the command `run` or `sync`.  The stop
\* sequence of trigger_shutdown is taken here as one step of the signal
\* handler; its interleavings are those of SpecShutdown.

cliRest == <<tpc, cidx, runLog, comp, raises, aggVars, reloadVars,
             healthVars, loadVars, concVars, backVars, rtVars,
             pull_on_startup, mainPc, proc, ppc, waited, idx, gate,
             cloudCalls, watch_paths, rclone_enabled>>

Components == {"config_observer", "watcher", "health"}

\* cmd_run: except Exception -> return 1; cmd_sync has no handler and main()
\* returns 1 for it
ReturnAfterError == 1

\* cmd_run: except KeyboardInterrupt -> return 0; main(): return 130
ReturnAfterInterrupt(c) == IF c = "run" THEN 0 ELSE 130

\* Daemon._stop_internal: the config observer and the watcher that exist
\* are stopped, the health thread is joined
StopInternal(started) == started \ Components

\* an exception leaves start(): cmd_run's handler returns
Raise ==
  /\ err' = TRUE
  /\ exit_code' = ReturnAfterError
  /\ cpc' = "returned"

\* Config() and Daemon(config), or Config() of cmd_sync and its early
\* return when rclone is not enabled
CliLoadConfig ==
  /\ cpc = "config"
  /\ IF cmd = "run"
       THEN cpc' = "init_backends" /\ exit_code' = exit_code
       ELSE IF rclone_enabled
              THEN cpc' = "sync_loop" /\ exit_code' = exit_code
              ELSE cpc' = "returned" /\ exit_code' = 0
  /\ UNCHANGED <<cmd, installed, up, subscribed, err, interrupted,
                 cleanup_runs, sidx, failed, shutdown_event, running,
                 backends, cliRest>>

\* start(): self._running = True, then _init_backends(); a backend
\* constructor that raises ends start() there
StartInitBackends(raised) ==
  /\ cpc = "init_backends"
  /\ running' = TRUE
  /\ IF raised
       THEN Raise /\ backends' = backends
       ELSE /\ backends' = {"syncthing"}
                             \cup (IF rclone_enabled THEN {"rclone"} ELSE {})
            /\ cpc' = "install"
            /\ UNCHANGED <<err, exit_code>>
  /\ UNCHANGED <<cmd, installed, up, subscribed, interrupted, cleanup_runs,
                 sidx, failed, shutdown_event, cliRest>>

\* on_shutdown, register_cleanup and install(): the signal handlers and the
\* atexit hook are in place
StartInstall ==
  /\ cpc = "install"
  /\ installed' = TRUE
  /\ cpc' = "config_watcher"
  /\ UNCHANGED <<cmd, up, subscribed, exit_code, err, interrupted,
                 cleanup_runs, sidx, failed, shutdown_event, running,
                 backends, cliRest>>

\* _start_config_watcher()
StartConfigWatcher ==
  /\ cpc = "config_watcher"
  /\ up' = up \cup {"config_observer"}
  /\ cpc' = "watcher"
  /\ UNCHANGED <<cmd, installed, subscribed, exit_code, err, interrupted,
                 cleanup_runs, sidx, failed, shutdown_event, running,
                 backends, cliRest>>

\* DebouncedWatcher(...).watch_all(paths).start(): a path that does not
\* exist is logged and skipped; Observer.start() may raise
StartWatcher(raised) ==
  /\ cpc = "watcher"
  /\ IF raised
       THEN Raise /\ UNCHANGED <<up, subscribed>>
       ELSE /\ subscribed' = WatchAll(watch_paths)
            /\ up' = up \cup {"watcher"}
            /\ cpc' = "health"
            /\ UNCHANGED <<err, exit_code>>
  /\ UNCHANGED <<cmd, installed, interrupted, cleanup_runs, sidx, failed,
                 shutdown_event, running, backends, cliRest>>

\* the health thread is started
StartHealth ==
  /\ cpc = "health"
  /\ up' = up \cup {"health"}
  /\ cpc' = "batches"
  /\ UNCHANGED <<cmd, installed, subscribed, exit_code, err, interrupted,
                 cleanup_runs, sidx, failed, shutdown_event, running,
                 backends, cliRest>>

\* the startup pull and the initial sync (their steps are SpecSync's), then
\* "dgmt running. Press Ctrl+C to stop."
StartBatches ==
  /\ cpc = "batches"
  /\ cpc' = "wait"
  /\ UNCHANGED <<cmd, installed, up, subscribed, exit_code, err, interrupted,
                 cleanup_runs, sidx, failed, shutdown_event, running,
                 backends, cliRest>>

\* wait_for_shutdown() returns once the latch is set; start() returns and
\* cmd_run returns 0
WaitReturns ==
  /\ cpc = "wait"
  /\ shutdown_event
  /\ cpc' = "returned"
  /\ exit_code' = 0
  /\ UNCHANGED <<cmd, installed, up, subscribed, err, interrupted,
                 cleanup_runs, sidx, failed, shutdown_event, running,
                 backends, cliRest>>

\* Ctrl+C.  With the handlers installed _signal_handler runs
\* trigger_shutdown in the main thread and the interrupted code goes on;
\* otherwise KeyboardInterrupt is raised in the main thread.
Sigint ==
  /\ cpc \notin {"returned", "exited"}
  /\ ~interrupted
  /\ interrupted' = TRUE
  /\ IF installed
       THEN /\ shutdown_event' = TRUE
            /\ running' = FALSE
            /\ up' = StopInternal(up)
            /\ cleanup_runs' = cleanup_runs + 1
            /\ UNCHANGED <<cpc, exit_code>>
       ELSE /\ cpc' = "returned"
            /\ exit_code' = ReturnAfterInterrupt(cmd)
            /\ UNCHANGED <<shutdown_event, running, up, cleanup_runs>>
  /\ UNCHANGED <<cmd, installed, subscribed, err, sidx, failed, backends,
                 cliRest>>

\* cmd_sync: one pass of the loop; rclone.sync/pull/push return False on a
\* failure, they do not raise
SyncPath(ok) ==
  /\ cpc = "sync_loop"
  /\ sidx <= Len(watch_paths)
  /\ failed' = (failed \/ ~ok)
  /\ sidx' = sidx + 1
  /\ UNCHANGED <<cmd, cpc, installed, up, subscribed, exit_code, err,
                 interrupted, cleanup_runs, shutdown_event, running,
                 backends, cliRest>>

\* cmd_sync: return 0 if success else 1
SyncReturn ==
  /\ cpc = "sync_loop"
  /\ sidx > Len(watch_paths)
  /\ cpc' = "returned"
  /\ exit_code' = IF failed THEN 1 ELSE 0
  /\ UNCHANGED <<cmd, installed, up, subscribed, err, interrupted,
                 cleanup_runs, sidx, failed, shutdown_event, running,
                 backends, cliRest>>

\* sys.exit(main()): the atexit hook registered by install() runs the
\* cleanup list; the daemon threads die with the process
ProcessExit ==
  /\ cpc = "returned"
  /\ cpc' = "exited"
  /\ cleanup_runs' = IF installed THEN cleanup_runs + 1 ELSE cleanup_runs
  /\ UNCHANGED <<cmd, installed, up, subscribed, exit_code, err, interrupted,
                 sidx, failed, shutdown_event, running, backends, cliRest>>

\* the configured watch paths of the process
CliWatchPaths == {<<"w", "v">>, <<"v", "n">>, <<"n">>}

CliInit ==
  /\ AggIdle
  /\ SyncIdle
  /\ pull_on_startup = FALSE
  /\ rclone_enabled \in BOOLEAN
  /\ watch_paths \in CliWatchPaths
  /\ backends = {}
  /\ shutdown_event = FALSE
  /\ tpc = [t \in Callers |-> "idle"]
  /\ cidx = [t \in Callers |-> 1]
  /\ runLog = <<>>
  /\ running = FALSE
  /\ comp = [config_observer |-> "running", watcher |-> "running",
             timer |-> "none", health |-> "alive", order |-> <<>>,
             reload_timer |-> "none"]
  /\ raises = {}
  /\ ReloadIdle
  /\ HealthIdle
  /\ LoadIdle
  /\ OthersIdle
  /\ cmd \in {"run", "sync"}
  /\ cpc = "config"
  /\ installed = FALSE
  /\ up = {}
  /\ subscribed = {}
  /\ exit_code = None
  /\ err = FALSE
  /\ interrupted = FALSE
  /\ cleanup_runs = 0
  /\ sidx = 1
  /\ failed = FALSE

CliNext ==
  \/ CliLoadConfig
  \/ \E raised \in BOOLEAN : StartInitBackends(raised)
  \/ StartInstall
  \/ StartConfigWatcher
  \/ \E raised \in BOOLEAN : StartWatcher(raised)
  \/ StartHealth
  \/ StartBatches
  \/ WaitReturns
  \/ Sigint
  \/ \E ok \in BOOLEAN : SyncPath(ok)
  \/ SyncReturn
  \/ ProcessExit

SpecCli == CliInit /\ [][CliNext]_vars

\* the daemon announced "dgmt running" and is not shutting down
DaemonRunning == cmd = "run" /\ cpc = "wait" /\ ~shutdown_event

\* start() ended by an exception after it had started components
StartFailedLate ==
  cmd = "run" /\ cpc = "exited" /\ err /\ ~interrupted /\ installed

\* C22: a daemon none of whose configured watch roots exists, or one of
\* whose backends cannot be built, never announces that it runs: start()
\* fails and the process exits non-zero; a running daemon has all its
\* components.
C22_NoPartialDaemon ==
  /\ DaemonRunning => (subscribed # {} /\ up = Components)
  /\ (cmd = "run" /\ cpc = "exited" /\ ~interrupted) => exit_code # 0

\* C23: when start() raises after components were started, the latch is
\* set, the started components are stopped and the cleanups have run
\* exactly once by the time the process is gone.
C23_StartErrorShutsDown ==
  StartFailedLate =>
    (shutdown_event /\ up = {} /\ ~running /\ cleanup_runs = 1)

\* C24: the process exits 0 on success, 1 on a failure (for sync: some
\* path failed, every path having been attempted) and 130 when it was
\* interrupted, `run` included.
C24_ExitCodes ==
  cpc = "exited" =>
    /\ (interrupted /\ ~err) => exit_code = 130
    /\ (~interrupted /\ (err \/ failed)) => exit_code = 1
    /\ (~interrupted /\ ~err /\ ~failed) => exit_code = 0
    /\ (cmd = "sync" /\ ~interrupted /\ rclone_enabled)
         => sidx = Len(watch_paths) + 1

\* C36: once the latch is set while start() initializes, start() starts no
\* further component, and none is left running when start() returns.
C36_ShutdownDuringInitFinal ==
  /\ [][(cmd = "run" /\ shutdown_event) => up' \subseteq up]_vars
  /\ []((cmd = "run" /\ shutdown_event /\ cpc \in {"returned", "exited"})
         => up = {})

\* ------------------------------------------------- Config._from_dict
\* A document is a function from its keys to their values; the value of a
\* section is a document.  The settings are the keys of the legacy flat
\* shape, one of each group the loader treats alike.

loadRest == <<aggVars, cfgVars, syncVars, shutVars, reloadVars, healthVars,
              cliVars, concVars, backVars, rtVars>>

\* utils.paths.expand_path: expanduser().resolve(); an absolute path is
\* its own expansion
ExpandPath(p) ==
  CASE p = "~/a" -> "/home/a"
    [] p = "~/st" -> "/home/st"
    [] p = "~/l" -> "/home/l"
    [] p = "~/.dgmt/dgmt.log" -> "/home/.dgmt/dgmt.log"
    [] OTHER -> p

ExpandAll(ps) == [i \in 1..Len(ps) |-> ExpandPath(ps[i])]

\* dict.get(key, default)
Get(d, k, default) == IF k \in DOMAIN d THEN d[k] ELSE default

\* _from_dict, hub: the section, else the flat keys when "watch_paths" is
\* one of them
HubFromDict(data, c) ==
  IF "hub" \in DOMAIN data
    THEN [c EXCEPT
            !.watch_paths = ExpandAll(Get(data["hub"], "watch_paths", <<>>)),
            !.debounce_seconds = Get(data["hub"], "debounce_seconds", 30),
            !.pull_on_startup = Get(data["hub"], "pull_on_startup", TRUE)]
    ELSE IF "watch_paths" \in DOMAIN data
      THEN [c EXCEPT
              !.watch_paths = ExpandAll(Get(data, "watch_paths", <<>>)),
              !.debounce_seconds = Get(data, "debounce_seconds", 30),
              !.pull_on_startup = Get(data, "pull_on_startup", TRUE)]
      ELSE c

\* _from_dict, backends.rclone
RcloneFromDict(b, c) ==
  IF "rclone" \in DOMAIN b
    THEN [c EXCEPT !.rclone_remote = Get(b["rclone"], "remote", "dgmt"),
                   !.rclone_enabled = Get(b["rclone"], "enabled", FALSE)]
    ELSE c

\* _from_dict, backends.syncthing: str(expand_path(exe)) if exe else None
SyncthingFromDict(b, c) ==
  IF "syncthing" \in DOMAIN b
    THEN [c EXCEPT
            !.syncthing_exe =
               IF "exe" \in DOMAIN b["syncthing"]
                 THEN ExpandPath(b["syncthing"]["exe"]) ELSE "None",
            !.stop_syncthing_on_exit =
               Get(b["syncthing"], "stop_on_exit", TRUE),
            !.restart_syncthing_on_failure =
               Get(b["syncthing"], "restart_on_failure", TRUE)]
    ELSE c

\* _from_dict, backends: the section, else the flat keys when
\* "rclone_remote" is one of them; the flat syncthing_exe is stored as read
BackendsFromDict(data, c) ==
  IF "backends" \in DOMAIN data
    THEN SyncthingFromDict(data["backends"],
                           RcloneFromDict(data["backends"], c))
    ELSE IF "rclone_remote" \in DOMAIN data
      THEN [c EXCEPT
              !.rclone_remote = Get(data, "rclone_remote", "dgmt"),
              !.syncthing_exe = Get(data, "syncthing_exe", "None"),
              !.restart_syncthing_on_failure =
                 Get(data, "restart_syncthing_on_failure", TRUE)]
      ELSE c

\* _from_dict, logging: the section, else the flat keys when "log_file" is
\* one of them
LoggingFromDict(data, c) ==
  IF "logging" \in DOMAIN data
    THEN [c EXCEPT
            !.log_file = ExpandPath(Get(data["logging"], "file",
                                        "~/.dgmt/dgmt.log")),
            !.log_level = Get(data["logging"], "level", "INFO")]
    ELSE IF "log_file" \in DOMAIN data
      THEN [c EXCEPT
              !.log_file = ExpandPath(Get(data, "log_file",
                                          "~/.dgmt/dgmt.log")),
              !.log_level = Get(data, "log_level", "INFO")]
      ELSE c

\* Config._from_dict over a fresh ConfigData
FromDict(data) ==
  LoggingFromDict(data,
    BackendsFromDict(data,
      HubFromDict(data, [DefaultData EXCEPT !.loaded = TRUE])))

\* the keys of the flat shape and where the sectioned shape holds them
HubKeys == {"watch_paths", "debounce_seconds", "pull_on_startup"}
RcloneKeys == [remote |-> "rclone_remote"]
SyncthingKeys == [exe |-> "syncthing_exe",
                  restart_on_failure |-> "restart_syncthing_on_failure"]
LoggingKeys == [file |-> "log_file", level |-> "log_level"]
FlatKeys ==
  HubKeys \cup {RcloneKeys[k] : k \in DOMAIN RcloneKeys}
          \cup {SyncthingKeys[k] : k \in DOMAIN SyncthingKeys}
          \cup {LoggingKeys[k] : k \in DOMAIN LoggingKeys}

\* the section holding the settings s that the key map names
Section(s, keys) ==
  [k \in {n \in DOMAIN keys : keys[n] \in DOMAIN s} |-> s[keys[k]]]

\* the document without the keys whose section is empty
Present(doc) == [k \in {n \in DOMAIN doc : DOMAIN doc[n] # {}} |-> doc[k]]

\* the sectioned document that carries the settings s (Config._to_dict's
\* layout)
SectionedDocument(s) ==
  Present([hub |-> [k \in DOMAIN s \cap HubKeys |-> s[k]],
           backends |-> Present([rclone |-> Section(s, RcloneKeys),
                                 syncthing |-> Section(s, SyncthingKeys)]),
           logging |-> Section(s, LoggingKeys)])

\* the legacy flat document is loaded
LoadFlat ==
  /\ ~flat.loaded
  /\ flat' = FromDict(settings)
  /\ UNCHANGED <<settings, sectioned, loadRest>>

\* the sectioned document carrying the same settings is loaded
LoadSectioned ==
  /\ ~sectioned.loaded
  /\ sectioned' = FromDict(SectionedDocument(settings))
  /\ UNCHANGED <<settings, flat, loadRest>>

\* the flat documents: any set of the keys, two spellings of each path
LoadInit ==
  /\ AggIdle
  /\ SyncIdle
  /\ ShutIdle
  /\ backends = {"syncthing"}
  /\ rclone_enabled = FALSE
  /\ pull_on_startup = FALSE
  /\ watch_paths = <<"w", "v">>
  /\ ReloadIdle
  /\ HealthIdle
  /\ CliIdle
  /\ OthersIdle
  /\ \E has \in SUBSET FlatKeys, wp \in {<<"~/a">>, <<"/a">>},
        exe \in {"~/st", "/st"} :
       settings = [k \in has |->
                     CASE k = "watch_paths" -> wp
                       [] k = "debounce_seconds" -> 5
                       [] k = "pull_on_startup" -> FALSE
                       [] k = "rclone_remote" -> "gdrive"
                       [] k = "syncthing_exe" -> exe
                       [] k = "restart_syncthing_on_failure" -> FALSE
                       [] k = "log_file" -> "~/l"
                       [] k = "log_level" -> "DEBUG"]
  /\ flat = DefaultData
  /\ sectioned = DefaultData

LoadNext == LoadFlat \/ LoadSectioned

SpecLoad == LoadInit /\ [][LoadNext]_vars

\* C26: the config loaded from a flat document equals the config loaded
\* from the sectioned document carrying the same settings, field by field.
C26_FlatEqualsSectioned ==
  (flat.loaded /\ sectioned.loaded) => flat = sectioned

TypeOK ==
  /\ changes.created \subseteq AllPaths
  /\ changes.modified \subseteq AllPaths
  /\ changes.deleted \subseteq AllPaths
  /\ changes.renamed \subseteq AllPaths \X AllPaths
  /\ first_event \in {None} \cup (0..MaxTime)
  /\ last_event \in {None} \cup (0..MaxTime)
  /\ timer \in {None} \cup (1..Len(timers))
  /\ now \in 0..MaxTime
  /\ nEvents \in 0..MaxEvents
  /\ cmd \in {"run", "sync"}
  /\ cpc \in {"config", "init_backends", "install", "config_watcher",
              "watcher", "health", "batches", "wait", "sync_loop",
              "returned", "exited"}
  /\ installed \in BOOLEAN
  /\ up \subseteq Components
  /\ subscribed \subseteq ExistingRoots
  /\ exit_code \in {None, 0, 1, 130}
  /\ err \in BOOLEAN
  /\ interrupted \in BOOLEAN
  /\ cleanup_runs \in 0..2
  /\ sidx \in 1..(Len(watch_paths) + 1)
  /\ failed \in BOOLEAN
  /\ DOMAIN settings \subseteq FlatKeys
  /\ flat.loaded \in BOOLEAN
  /\ sectioned.loaded \in BOOLEAN

\* ------------------------------------------------------------------
\* Backend operations (backends/rclone.py, sftp.py, syncthing.py)
\* ------------------------------------------------------------------
\* One instance of each backend class, and two threads calling its
\* sync, pull and push.  A call is entered, executes its subprocess or
\* HTTP request, and returns.

BackendKinds == {"rclone", "sftp", "syncthing"}

Operations == {"sync", "pull", "push"}

\* the classes whose __init__ creates self._lock: RcloneBackend only
HasLock(kind) == kind = "rclone"

\* a thread calls inst.op(path)
BackendCall(c, inst, op) ==
  /\ bcall[c].pc = "idle"
  /\ bcall' = [bcall EXCEPT ![c] = [pc |-> "called", inst |-> inst,
                                    op |-> op]]
  /\ UNCHANGED <<block, aggVars, cfgVars, syncVars, shutVars, reloadVars,
                 healthVars, cliVars, loadVars, concVars, rtVars>>

\* the body is entered: `with self._lock:` where the class has one, the
\* first statement of the method otherwise
BackendEnter(c) ==
  /\ bcall[c].pc = "called"
  /\ IF HasLock(bcall[c].inst)
       THEN /\ bcall[c].inst \notin block
            /\ block' = block \cup {bcall[c].inst}
       ELSE block' = block
  /\ bcall' = [bcall EXCEPT ![c].pc = "executing"]
  /\ UNCHANGED <<aggVars, cfgVars, syncVars, shutVars, reloadVars,
                 healthVars, cliVars, loadVars, concVars, rtVars>>

\* the operation returns and leaves the with block
BackendReturn(c) ==
  /\ bcall[c].pc = "executing"
  /\ block' = IF HasLock(bcall[c].inst) THEN block \ {bcall[c].inst}
                                        ELSE block
  /\ bcall' = [bcall EXCEPT ![c] = [pc |-> "idle", inst |-> "none",
                                    op |-> "none"]]
  /\ UNCHANGED <<aggVars, cfgVars, syncVars, shutVars, reloadVars,
                 healthVars, cliVars, loadVars, concVars, rtVars>>

BackInit ==
  /\ AggIdle
  /\ backends = {"syncthing", "rclone"}
  /\ rclone_enabled = TRUE
  /\ pull_on_startup = FALSE
  /\ watch_paths = <<"w", "v">>
  /\ SyncIdle
  /\ ShutIdle
  /\ ReloadIdle
  /\ HealthIdle
  /\ CliIdle
  /\ LoadIdle
  /\ OthersIdle

BackNext ==
  \/ \E c \in Threads, inst \in BackendKinds, op \in Operations :
       BackendCall(c, inst, op)
  \/ \E c \in Threads : BackendEnter(c)
  \/ \E c \in Threads : BackendReturn(c)

SpecBackend == BackInit /\ [][BackNext]_vars

\* the callers executing an operation of the instance
Executing(inst) ==
  {c \in Threads : bcall[c].pc = "executing" /\ bcall[c].inst = inst}

\* C33: on every backend instance, whichever its class, at most one of
\* sync, pull and push is executing at any time; a second caller waits
\* until the first has returned.
C33_OneOperationPerInstance ==
  \A inst \in BackendKinds : Cardinality(Executing(inst)) <= 1

\* ------------------------------------------------------------------
\* ConfigFileHandler.on_modified and the reload lock (core/daemon.py)
\* ------------------------------------------------------------------
\* Every write of the config file reaches on_modified, which replaces
\* the handler's threading.Timer.  A timer that expires runs
\* _reload_config on its own thread; the body runs under _reload_lock.
\* A timer thread may be scheduled late, never early.

\* the clock stops at MaxClock ticks
MaxClock == 5

\* on_modified is called at most MaxWrites times
MaxWrites == 3

\* threading.Timer(0.5, ...): 0.5 s in ticks of a quarter second
ReloadDebounce == 2

\* a cancel() that leaves the timer waiting
CancelReloadTimerKeeps(ts, i) == ts

\* Timer.cancel(): sets the timer's finished event; a timer that has
\* already left its wait is not affected
CancelReloadTimer(ts, i) ==
  IF ts[i].st = "waiting" THEN [ts EXCEPT ![i].st = "cancelled"] ELSE ts

\* on_modified, under the handler's lock: cancel the timer of the last
\* write if there is one, create and start a new one
OnModified ==
  /\ Len(rtimers) < MaxWrites
  /\ LET kept == IF rdebounce # None
                   THEN CancelReloadTimer(rtimers, rdebounce)
                   ELSE rtimers
     IN  rtimers' = Append(kept, [st |-> "waiting", created |-> rnow])
  /\ rdebounce' = Len(rtimers) + 1
  /\ UNCHANGED <<reload_lock, rnow, aggVars, cfgVars, syncVars, shutVars,
                 reloadVars, healthVars, cliVars, loadVars, concVars,
                 backVars>>

\* a quarter second passes
ClockTick ==
  /\ rnow < MaxClock
  /\ rnow' = rnow + 1
  /\ UNCHANGED <<rtimers, rdebounce, reload_lock, aggVars, cfgVars,
                 syncVars, shutVars, reloadVars, healthVars, cliVars,
                 loadVars, concVars, backVars>>

\* Timer.run: the wait of 0.5 s ended without cancel(); the thread calls
\* _reload_config and arrives at `with self._reload_lock`
ReloadTimerExpires(i) ==
  /\ rtimers[i].st = "waiting"
  /\ rnow - rtimers[i].created >= ReloadDebounce
  /\ rtimers' = [rtimers EXCEPT ![i].st = "blocked"]
  /\ UNCHANGED <<rdebounce, reload_lock, rnow, aggVars, cfgVars, syncVars,
                 shutVars, reloadVars, healthVars, cliVars, loadVars,
                 concVars, backVars>>

\* the thread acquires _reload_lock and enters the reload body
ReloadAcquire(i) ==
  /\ rtimers[i].st = "blocked"
  /\ reload_lock = None
  /\ reload_lock' = i
  /\ rtimers' = [rtimers EXCEPT ![i].st = "body"]
  /\ UNCHANGED <<rdebounce, rnow, aggVars, cfgVars, syncVars, shutVars,
                 reloadVars, healthVars, cliVars, loadVars, concVars,
                 backVars>>

\* the body ends, by its last statement or in its except clause, and the
\* with block releases the lock
ReloadRelease(i) ==
  /\ rtimers[i].st = "body"
  /\ reload_lock' = None
  /\ rtimers' = [rtimers EXCEPT ![i].st = "done"]
  /\ UNCHANGED <<rdebounce, rnow, aggVars, cfgVars, syncVars, shutVars,
                 reloadVars, healthVars, cliVars, loadVars, concVars,
                 backVars>>

RtInit == BackInit

RtNext ==
  \/ OnModified
  \/ ClockTick
  \/ \E i \in 1..Len(rtimers) : ReloadTimerExpires(i)
  \/ \E i \in 1..Len(rtimers) : ReloadAcquire(i)
  \/ \E i \in 1..Len(rtimers) : ReloadRelease(i)

SpecReloadTimer == RtInit /\ [][RtNext]_vars

\* a thread waiting for a free lock gets it, and a reload body ends
FairSpecReloadTimer ==
  /\ SpecReloadTimer
  /\ \A i \in 1..MaxWrites :
       /\ WF_vars(i \in 1..Len(rtimers) /\ ReloadAcquire(i))
       /\ WF_vars(i \in 1..Len(rtimers) /\ ReloadRelease(i))

\* the timers whose thread is in the given position
TimersIn(st) == {i \in 1..Len(rtimers) : rtimers[i].st = st}

\* C31: at most one reload body is in progress at any time, and it is
\* the one holding the reload lock; a reload that has started ends before
\* another starts, so the notifications that arrived meanwhile run after
\* it one at a time; of two writes of the config file less than the
\* reload debounce apart, the timer of the earlier one is cancelled.
\* Every notification whose timer expired gets its reload, to the end.
C31_ReloadsSerialized ==
  /\ [](/\ Cardinality(TimersIn("body")) <= 1
        /\ \A i \in 1..Len(rtimers) :
             rtimers[i].st = "body" <=> reload_lock = i)
  /\ [](\A i, j \in 1..Len(rtimers) :
          (i < j /\ rtimers[j].created - rtimers[i].created < ReloadDebounce)
             => rtimers[i].st = "cancelled")
  /\ [][\A i, j \in 1..Len(rtimers) :
          (rtimers[i].st = "body" /\ rtimers[j].st = "blocked")
             => (rtimers'[j].st = "blocked"
                 /\ rtimers'[i].st \in {"body", "done"})]_vars
  /\ \A i \in 1..MaxWrites :
       (i \in 1..Len(rtimers) /\ rtimers[i].st = "blocked")
          ~> (i \in 1..Len(rtimers) /\ rtimers[i].st = "done")

\* a reload is running, a later notification waits for the lock, and an
\* earlier write was collapsed
C31_Witness ==
  /\ TimersIn("cancelled") # {}
  /\ TimersIn("body") # {}
  /\ TimersIn("blocked") # {}

\* ------------------------------------------------------------------
\* The daemon's threads around a reload (core/daemon.py)
\* ------------------------------------------------------------------
\* The main thread runs the startup pull and the initial sync, the
\* watcher's timer thread invokes the callback, the health thread checks
\* syncthing, and the config timer thread reloads.  gen numbers the loads
\* of the config: every value read from self._config comes from the load
\* gen names at that moment, and built names the load each backend
\* instance was made from.

\* the documents the user writes here: the two path lists, rclone enabled
DaemonDocuments ==
  {Document("ok", wp, TRUE) : wp \in {<<"w", "v">>, <<"v", "u">>}}

\* where a worker goes when its batch is over: Daemon.start goes from the
\* pull to the initial sync and then waits for shutdown; the timer thread
\* ends
Finished(th, op) ==
  IF th = "main"
    THEN IF op = "pull" THEN [op |-> "sync", at |-> "entry"]
                        ELSE [op |-> "sync", at |-> "done"]
    ELSE [op |-> "none", at |-> "idle"]

\* Daemon.start: if pull_on_startup: self._pull_all(), then self._sync_all()
StartBatch ==
  /\ mpc["main"].at = "idle"
  /\ mpc' = [mpc EXCEPT !["main"] =
               [op |-> IF pull_on_startup THEN "pull" ELSE "sync",
                at |-> "entry"]]
  /\ UNCHANGED <<mlocal, kcall, hlocal, hcheck, inflight, locks, aggVars,
                 cfgVars, syncVars, shutVars, reloadVars, healthVars,
                 cliVars, loadVars, backVars, rtVars>>

\* _trigger_callback on the watcher's timer thread: self.callback(changes)
\* with callback = self._sync_all; the batch starts if the call is accepted
TriggerCallback ==
  /\ mpc["trigger"].at = "idle"
  /\ LET call == InvokeCallback(EmptyChangeSet, None, None, None, FALSE)
     IN  /\ kcall' = [error |-> call.error,
                      during |-> inflight,
                      replaced |-> \E th \in inflight :
                                     mlocal[th].inst # built["rclone"]]
         /\ mpc' = IF call.error = "none"
                     THEN [mpc EXCEPT !["trigger"] =
                             [op |-> "sync", at |-> "entry"]]
                     ELSE mpc
  /\ UNCHANGED <<mlocal, hlocal, hcheck, inflight, locks, aggVars,
                 cfgVars, syncVars, shutVars, reloadVars, healthVars,
                 cliVars, loadVars, backVars, rtVars>>

\* _sync_all / _pull_all: rclone = self._backends.get("rclone"); return if
\* there is none
WorkerEnter(th) ==
  /\ mpc[th].at = "entry"
  /\ IF "rclone" \in backends
       THEN /\ mlocal' = [mlocal EXCEPT ![th] =
                            [NoLocals EXCEPT !.inst = built["rclone"]]]
            /\ mpc' = [mpc EXCEPT ![th].at =
                         IF mpc[th].op = "pull" THEN "timeout" ELSE "paths"]
       ELSE /\ mlocal' = [mlocal EXCEPT ![th] = NoLocals]
            /\ mpc' = [mpc EXCEPT ![th] = Finished(th, mpc[th].op)]
  /\ UNCHANGED <<kcall, hlocal, hcheck, inflight, locks, aggVars, cfgVars,
                 syncVars, shutVars, reloadVars, healthVars, cliVars,
                 loadVars, backVars, rtVars>>

\* _pull_all: timeout = self._config.hub.startup_pull_timeout
WorkerReadTimeout(th) ==
  /\ mpc[th].at = "timeout"
  /\ mlocal' = [mlocal EXCEPT ![th].timeout = gen]
  /\ mpc' = [mpc EXCEPT ![th].at = "paths"]
  /\ UNCHANGED <<kcall, hlocal, hcheck, inflight, locks, aggVars, cfgVars,
                 syncVars, shutVars, reloadVars, healthVars, cliVars,
                 loadVars, backVars, rtVars>>

\* for path in self._config.hub.watch_paths: the list is fetched once
WorkerReadPaths(th) ==
  /\ mpc[th].at = "paths"
  /\ mlocal' = [mlocal EXCEPT ![th].paths = gen,
                              ![th].todo = Len(watch_paths)]
  /\ mpc' = [mpc EXCEPT ![th] = IF watch_paths = <<>>
                                  THEN Finished(th, mpc[th].op)
                                  ELSE [@ EXCEPT !.at = "call"]]
  /\ UNCHANGED <<kcall, hlocal, hcheck, inflight, locks, aggVars, cfgVars,
                 syncVars, shutVars, reloadVars, healthVars, cliVars,
                 loadVars, backVars, rtVars>>

\* rclone.sync(path) / rclone.pull(path, timeout): `with self._lock` of the
\* instance the worker holds, then the transfer runs
WorkerCall(th) ==
  /\ mpc[th].at = "call"
  /\ mlocal[th].inst \notin locks
  /\ locks' = locks \cup {mlocal[th].inst}
  /\ inflight' = inflight \cup {th}
  /\ mpc' = [mpc EXCEPT ![th].at = "run"]
  /\ UNCHANGED <<mlocal, kcall, hlocal, hcheck, aggVars, cfgVars, syncVars,
                 shutVars, reloadVars, healthVars, cliVars, loadVars,
                 backVars, rtVars>>

\* the transfer returns or raises (caught in the loop); next path, or the
\* batch is over
WorkerReturn(th) ==
  /\ mpc[th].at = "run"
  /\ locks' = locks \ {mlocal[th].inst}
  /\ inflight' = inflight \ {th}
  /\ mlocal' = [mlocal EXCEPT ![th].todo = @ - 1]
  /\ mpc' = [mpc EXCEPT ![th] = IF mlocal[th].todo > 1
                                  THEN [@ EXCEPT !.at = "call"]
                                  ELSE Finished(th, mpc[th].op)]
  /\ UNCHANGED <<kcall, hlocal, hcheck, aggVars, cfgVars, syncVars,
                 shutVars, reloadVars, healthVars, cliVars, loadVars,
                 backVars, rtVars>>

\* _health_check_loop, first statement:
\* syncthing = self._backends.get("syncthing")
HealthThreadStart ==
  /\ hlocal = None
  /\ hlocal' = built["syncthing"]
  /\ UNCHANGED <<mpc, mlocal, kcall, hcheck, inflight, locks, aggVars,
                 cfgVars, syncVars, shutVars, reloadVars, healthVars,
                 cliVars, loadVars, backVars, rtVars>>

\* _health_check_loop: syncthing.is_healthy() / start() / restart() on the
\* local `syncthing`, bound once before the loop
HealthCheckTarget ==
  /\ hlocal # None
  /\ hcheck' = [target |-> hlocal, current |-> built["syncthing"],
                settled |-> rpc = "idle" /\ reloaded = "ok"]
  /\ UNCHANGED <<mpc, mlocal, kcall, hlocal, inflight, locks, aggVars,
                 cfgVars, syncVars, shutVars, reloadVars, healthVars,
                 cliVars, loadVars, backVars, rtVars>>

DaemonInit ==
  /\ AggIdle
  /\ backends = {"syncthing", "rclone"}
  /\ rclone_enabled = TRUE
  /\ pull_on_startup \in BOOLEAN
  /\ watch_paths = <<"w", "v">>
  /\ SyncIdle
  /\ ShutIdle
  /\ ReloadIdle
  /\ HealthIdle
  /\ CliIdle
  /\ LoadIdle
  /\ OthersIdle

DaemonNext ==
  \/ \E doc \in DaemonDocuments : WriteConfig(doc)
  \/ ReloadStart
  \/ LoadConfig
  \/ \E startRaises \in BOOLEAN : RebuildWatcher(startRaises)
  \/ InitBackends
  \/ StartBatch
  \/ TriggerCallback
  \/ \E th \in Workers : WorkerEnter(th)
  \/ \E th \in Workers : WorkerReadTimeout(th)
  \/ \E th \in Workers : WorkerReadPaths(th)
  \/ \E th \in Workers : WorkerCall(th)
  \/ \E th \in Workers : WorkerReturn(th)
  \/ HealthThreadStart
  \/ HealthCheckTarget

SpecDaemon == DaemonInit /\ [][DaemonNext]_vars

\* C32: the configuration values one batch uses come from one load of
\* the config: the pull timeout and the watch paths of a _pull_all are
\* both of the old load or both of the new one.
C32_OneGenerationPerBatch ==
  \A th \in Workers :
    (mlocal[th].timeout # None /\ mlocal[th].paths # None)
       => mlocal[th].timeout = mlocal[th].paths

\* C35: a health check made after a reload has ended successfully
\* targets the syncthing instance that is in the backend set then.
C35_HealthFollowsReload ==
  hcheck.settled => hcheck.target = hcheck.current

====
